---- MODULE Spec2Model ----
(***************************************************************************)
(* The la-rinha interpreter (src/src/rinha.c): lexer, symbol interning,    *)
(* values and the string pool, activation frames, the function table,      *)
(* the recursive-descent evaluator and the memoization cache.              *)
(*                                                                         *)
(* A run is modelled statement by statement: one step of the model is one  *)
(* iteration of the loop of rinha_exec_program_, evaluated by operators    *)
(* that follow the C functions one to one.  Two builds of the interpreter  *)
(* run the same source side by side: the shipped one                       *)
(* (RINHA_CONFIG_CACHE_ENABLE true) and one compiled with the memo cache   *)
(* switched off, which is the reference for the equivalence properties.    *)
(***************************************************************************)
EXTENDS Integers, Sequences, FiniteSets, TLC

(***************************************************************************)
(* Configuration (src/src/config.h)                                        *)
(***************************************************************************)
RINHA_CONFIG_STRING_VALUE_SIZE == 1024
RINHA_CONFIG_STRING_POOL_SIZE == 32
RINHA_CONFIG_SYMBOLS_SIZE == 32
RINHA_CONFIG_CALLS_SIZE == 32
RINHA_CONFIG_CACHE_SIZE == 4099
RINHA_CONFIG_FUNCTION_ARGS_SIZE == 6
\* config.h sets 1000100 frames; the model runs the same code on a short
\* frame array so that the overflow check is reached.
RINHA_CONFIG_STACK_SIZE == 4
\* stack_t.mem and args_t.hash are arrays of 64 entries (src/src/rinha.h)
STACK_MEM_SIZE == 64

(***************************************************************************)
(* Characters.  A C string is a sequence of one-character strings; NUL     *)
(* stands for the terminating '\0'.                                        *)
(***************************************************************************)
NUL == "NUL"

Ch(src, p) == IF p >= 1 /\ p <= Len(src) THEN src[p] ELSE NUL

isspace(c) == c \in {" ", "\t", "\n", "\r", "\f"}

Digits == <<"0", "1", "2", "3", "4", "5", "6", "7", "8", "9">>

isdigit(c) == \E i \in 1..10 : Digits[i] = c

DigitValue(c) == (CHOOSE i \in 1..10 : Digits[i] = c) - 1

Ascii ==
    " " :> 32 @@ "!" :> 33 @@ "\"" :> 34 @@ "#" :> 35 @@ "$" :> 36 @@ "%" :> 37 @@
    "&" :> 38 @@ "'" :> 39 @@ "(" :> 40 @@ ")" :> 41 @@ "*" :> 42 @@ "+" :> 43 @@
    "," :> 44 @@ "-" :> 45 @@ "." :> 46 @@ "/" :> 47 @@ "0" :> 48 @@ "1" :> 49 @@
    "2" :> 50 @@ "3" :> 51 @@ "4" :> 52 @@ "5" :> 53 @@ "6" :> 54 @@ "7" :> 55 @@
    "8" :> 56 @@ "9" :> 57 @@ ":" :> 58 @@ ";" :> 59 @@ "<" :> 60 @@ "=" :> 61 @@
    ">" :> 62 @@ "?" :> 63 @@ "@" :> 64 @@ "A" :> 65 @@ "B" :> 66 @@ "C" :> 67 @@
    "D" :> 68 @@ "E" :> 69 @@ "F" :> 70 @@ "G" :> 71 @@ "H" :> 72 @@ "I" :> 73 @@
    "J" :> 74 @@ "K" :> 75 @@ "L" :> 76 @@ "M" :> 77 @@ "N" :> 78 @@ "O" :> 79 @@
    "P" :> 80 @@ "Q" :> 81 @@ "R" :> 82 @@ "S" :> 83 @@ "T" :> 84 @@ "U" :> 85 @@
    "V" :> 86 @@ "W" :> 87 @@ "X" :> 88 @@ "Y" :> 89 @@ "Z" :> 90 @@ "[" :> 91 @@
    "\\" :> 92 @@ "]" :> 93 @@ "^" :> 94 @@ "_" :> 95 @@ "a" :> 97 @@
    "b" :> 98 @@ "c" :> 99 @@ "d" :> 100 @@ "e" :> 101 @@ "f" :> 102 @@ "g" :> 103 @@
    "h" :> 104 @@ "i" :> 105 @@ "j" :> 106 @@ "k" :> 107 @@ "l" :> 108 @@ "m" :> 109 @@
    "n" :> 110 @@ "o" :> 111 @@ "p" :> 112 @@ "q" :> 113 @@ "r" :> 114 @@ "s" :> 115 @@
    "t" :> 116 @@ "u" :> 117 @@ "v" :> 118 @@ "w" :> 119 @@ "x" :> 120 @@ "y" :> 121 @@
    "z" :> 122 @@ "{" :> 123 @@ "|" :> 124 @@ "}" :> 125 @@ "~" :> 126

CharCode(c) == IF c \in DOMAIN Ascii THEN Ascii[c] ELSE 10

Min(a, b) == IF a < b THEN a ELSE b

\* C's % and / truncate towards zero
CRem(a, b) == IF a >= 0 THEN a % b ELSE 0 - ((0 - a) % b)

CDiv(a, b) ==
    IF (a >= 0) = (b > 0)
    THEN (IF a >= 0 THEN a ELSE 0 - a) \div (IF b >= 0 THEN b ELSE 0 - b)
    ELSE 0 - ((IF a >= 0 THEN a ELSE 0 - a) \div (IF b >= 0 THEN b ELSE 0 - b))

\* atol: the leading decimal digits of a string
RECURSIVE atol_from(_, _, _)
atol_from(str, i, acc) ==
    IF i <= Len(str) /\ isdigit(str[i])
    THEN atol_from(str, i + 1, acc * 10 + DigitValue(str[i]))
    ELSE acc

atol(str) == atol_from(str, 1, 0)

\* printf's decimal conversion
RECURSIVE DecDigits(_)
DecDigits(n) ==
    IF n < 10 THEN <<Digits[n + 1]>> ELSE Append(DecDigits(n \div 10), Digits[(n % 10) + 1])

Decimal(n) == IF n < 0 THEN <<"-">> \o DecDigits(0 - n) ELSE DecDigits(n)

(***************************************************************************)
(* Values (rinha_value_t).  A string is a pointer into string_pool, a      *)
(* function is a pointer to its record in calls[], a tuple holds two       *)
(* primitives (struct __primitive first, second).                          *)
(***************************************************************************)
NULL == 0 - 1

Undefined ==
    [type |-> "UNDEFINED", number |-> 0, boolean |-> FALSE, string |-> NULL,
     function |-> NULL, tuple |-> <<>>]

\* array element i of a calloc'ed array kept as a partial function
At(arr, i, zero) == IF i \in DOMAIN arr THEN arr[i] ELSE zero

Put(arr, i, x) == (i :> x) @@ arr

R(s, v) == [s |-> s, v |-> v]

Halted(s) == s.status \in {"returned", "exited", "killed"}

\* Once the process has exited or was killed nothing is executed any more.
Live(s, t) == IF Halted(s) THEN s ELSE t

\* Undefined behaviour: the process is killed, or it goes on.
UB(s, what) ==
    Live(s, IF s.ub_trap
            THEN [s EXCEPT !.status = "killed", !.ub = Append(@, what)]
            ELSE [s EXCEPT !.ub = Append(@, what)])

\* Undefined behaviour that cannot go on: the cursor has left the token array.
Crash(s, what) == Live(s, [s EXCEPT !.status = "killed", !.ub = Append(@, what)])

\* The number member of a value whose type is not INTEGER: zero in storage
\* that was only zero-initialised, else whatever bits the active member
\* (a pointer, a bool) left there.
NumberOf(s, v) ==
    CASE v.type = "INTEGER" -> v.number
      [] v.type = "UNDEFINED" -> 0
      [] OTHER -> s.ub_number

BooleanOf(s, v) ==
    CASE v.type = "BOOLEAN" -> v.boolean
      [] v.type = "UNDEFINED" -> FALSE
      [] OTHER -> s.ub_number # 0

StringOf(s, v) ==
    IF v.type = "STRING" /\ v.string \in DOMAIN s.string_pool
    THEN s.string_pool[v.string]
    ELSE <<>>

rinha_alloc_static_string(s) ==
    LET index == (s.pool_index + 1) % RINHA_CONFIG_STRING_POOL_SIZE
    IN  [s |-> Live(s, [s EXCEPT !.pool_index = index]), slot |-> index]

rinha_value_number_set_(value) == [Undefined EXCEPT !.type = "INTEGER", !.number = value]

rinha_value_bool_set_(value) == [Undefined EXCEPT !.type = "BOOLEAN", !.boolean = value]

\* strncpy(ret.string, value, RINHA_CONFIG_STRING_VALUE_SIZE)
rinha_value_string_set_(s, value) ==
    LET a == rinha_alloc_static_string(s)
        text == SubSeq(value, 1, Min(Len(value), RINHA_CONFIG_STRING_VALUE_SIZE))
    IN  R(Live(s, [a.s EXCEPT !.string_pool = Put(@, a.slot, text)]),
          [Undefined EXCEPT !.type = "STRING", !.string = a.slot])

rinha_value_caller_set_(value, func) ==
    [Undefined EXCEPT !.type = "FUNCTION", !.function = func]

\* A function or a tuple takes the default branch and becomes an INTEGER.
rinha_value_set_(s, value) ==
    CASE value.type = "STRING" -> rinha_value_string_set_(s, StringOf(s, value))
      [] value.type = "BOOLEAN" -> R(s, rinha_value_bool_set_(value.boolean))
      [] OTHER -> R(s, rinha_value_number_set_(NumberOf(s, value)))

rinha_value_tuple_set_(s, first, second) ==
    LET v1 == rinha_value_set_(s, first)
        v2 == rinha_value_set_(v1.s, second)
    IN  R(v2.s, [Undefined EXCEPT !.type = "TUPLE", !.tuple = <<v1.v, v2.v>>])

\* Copies the active member only; a string gets a new pool slot.
RECURSIVE rinha_var_copy(_, _, _)
rinha_var_copy(s, var1, var2) ==
    CASE var2.type = "INTEGER" -> R(s, rinha_value_number_set_(var2.number))
      [] var2.type = "BOOLEAN" -> R(s, rinha_value_bool_set_(var2.boolean))
      [] var2.type = "STRING" ->
            LET a == rinha_alloc_static_string(s)
            IN  R(Live(s, [a.s EXCEPT !.string_pool = Put(@, a.slot, StringOf(s, var2))]),
                  [Undefined EXCEPT !.type = "STRING", !.string = a.slot])
      [] var2.type = "FUNCTION" -> R(s, rinha_value_caller_set_(Undefined, var2.function))
      [] var2.type = "TUPLE" ->
            LET old == IF var1.type = "TUPLE" THEN var1.tuple ELSE <<Undefined, Undefined>>
                c1 == rinha_var_copy(s, old[1], var2.tuple[1])
                c2 == rinha_var_copy(c1.s, old[2], var2.tuple[2])
            IN  R(c2.s, [Undefined EXCEPT !.type = "TUPLE", !.tuple = <<c1.v, c2.v>>])
      [] OTHER -> R(s, Undefined)

\* djb2, reduced modulo RINHA_CONFIG_SYMBOLS_SIZE (a power of two, so the
\* reduction may be taken at every step of the unsigned arithmetic)
RECURSIVE rinha_hash_str_from(_, _, _)
rinha_hash_str_from(str, i, hash) ==
    IF i > Len(str) THEN hash
    ELSE rinha_hash_str_from(str, i + 1,
            (hash * 33 + CharCode(str[i])) % RINHA_CONFIG_SYMBOLS_SIZE)

rinha_hash_str_(str) == rinha_hash_str_from(str, 1, 5381 % RINHA_CONFIG_SYMBOLS_SIZE)

rinha_hash_num(n, k) == CRem(n * 31 + k, RINHA_CONFIG_CACHE_SIZE)

(***************************************************************************)
(* Lexer                                                                   *)
(***************************************************************************)
ZeroToken ==
    [type |-> "TOKEN_UNDEFINED", lexname |-> <<>>, hash |-> 0, value |-> Undefined]

\* tokens[i] of the calloc'ed array; the model counts tokens from 1
Tok(s, i) == IF i \in 1..Len(s.tokens) THEN s.tokens[i] ELSE ZeroToken

rinha_isdelim(c) ==
    c \in {"(", ")", "\"", "'", "{", "}", ",", "+", "-", "*", "/", "%", ";", NUL}

RECURSIVE rinha_test_is_comment_line(_, _)
rinha_test_is_comment_line(src, p) ==
    IF Ch(src, p) # NUL /\ Ch(src, p) # "\n"
    THEN rinha_test_is_comment_line(src, p + 1)
    ELSE p

RECURSIVE rinha_test_is_comment_block(_, _)
rinha_test_is_comment_block(src, p) ==
    IF Ch(src, p) = NUL THEN [p |-> p, r |-> FALSE]
    ELSE IF Ch(src, p) = "*" /\ Ch(src, p + 1) = "/" THEN [p |-> p + 2, r |-> TRUE]
    ELSE rinha_test_is_comment_block(src, p + 1)

rinha_test_is_comment(src, p) ==
    IF Ch(src, p) = "/" /\ Ch(src, p + 1) = "/"
    THEN [p |-> rinha_test_is_comment_line(src, p + 2), r |-> TRUE]
    ELSE IF Ch(src, p) = "/" /\ Ch(src, p + 1) = "*"
    THEN rinha_test_is_comment_block(src, p + 2)
    ELSE [p |-> p, r |-> FALSE]

RECURSIVE rinha_find_token_from(_, _, _)
rinha_find_token_from(tokens, lexname, i) ==
    IF i > Len(tokens) THEN 0
    ELSE IF tokens[i].type \in {"TOKEN_IDENTIFIER", "TOKEN_FN"} /\ tokens[i].lexname = lexname
    THEN i
    ELSE rinha_find_token_from(tokens, lexname, i + 1)

rinha_find_token(tokens, lexname) == rinha_find_token_from(tokens, lexname, 1)

\* returns the symbol id and the counter
rinha_create_sym_ref(s, tokens, lexname) ==
    LET t == rinha_find_token(tokens, lexname)
    IN  IF t # 0
        THEN IF tokens[t].hash = 0
             THEN [symref |-> s.symref + 1, hash |-> s.symref + 1]
             ELSE [symref |-> s.symref, hash |-> tokens[t].hash]
        ELSE [symref |-> s.symref, hash |-> rinha_hash_str_(lexname)]

Keywords ==
    <<  <<"TOKEN_LET", <<"l", "e", "t">> >>,
        <<"TOKEN_FN", <<"f", "n">> >>,
        <<"TOKEN_LPAREN", <<"(">> >>,
        <<"TOKEN_RPAREN", <<")">> >>,
        <<"TOKEN_LBRACE", <<"{">> >>,
        <<"TOKEN_RBRACE", <<"}">> >>,
        <<"TOKEN_COMMA", <<",">> >>,
        <<"TOKEN_APOSTROPHE", <<"'">> >>,
        <<"TOKEN_QUOTE", <<"\"">> >>,
        <<"TOKEN_SEMICOLON", <<";">> >>,
        <<"TOKEN_ASSIGN", <<"=">> >>,
        <<"TOKEN_IF", <<"i", "f">> >>,
        <<"TOKEN_ELSE", <<"e", "l", "s", "e">> >>,
        <<"TOKEN_TRUE", <<"t", "r", "u", "e">> >>,
        <<"TOKEN_FALSE", <<"f", "a", "l", "s", "e">> >>,
        <<"TOKEN_YASWOC", <<"c", "o", "w", "s", "a", "y">> >>,
        <<"TOKEN_PRINT", <<"p", "r", "i", "n", "t">> >>,
        <<"TOKEN_FIRST", <<"f", "i", "r", "s", "t">> >>,
        <<"TOKEN_SECOND", <<"s", "e", "c", "o", "n", "d">> >>,
        <<"TOKEN_LT", <<"<">> >>,
        <<"TOKEN_GT", <<">">> >>,
        <<"TOKEN_PLUS", <<"+">> >>,
        <<"TOKEN_MINUS", <<"-">> >>,
        <<"TOKEN_ARROW", <<"=", ">">> >>,
        <<"TOKEN_MOD", <<"%">> >>,
        <<"TOKEN_MULTIPLY", <<"*">> >>,
        <<"TOKEN_DIVIDE", <<"/">> >>,
        <<"TOKEN_AND", <<"&", "&">> >>,
        <<"TOKEN_OR", <<"|", "|">> >>,
        <<"TOKEN_EQ", <<"=", "=">> >>,
        <<"TOKEN_NEQ", <<"!", "=">> >>,
        <<"TOKEN_GTE", <<">", "=">> >>,
        <<"TOKEN_WILDCARD", <<"_">> >>,
        <<"TOKEN_LTE", <<"<", "=">> >>  >>

\* The token a lexeme makes: its type, and for fn a fresh symbol id, for
\* true, false and numbers the literal value.
rinha_discover_token_typeype_(s, token) ==
    LET hit == {i \in 1..Len(Keywords) : Keywords[i][2] = token}
        type == IF hit # {} THEN Keywords[CHOOSE i \in hit : TRUE][1]
                ELSE IF Len(token) > 0 /\ isdigit(token[1]) THEN "TOKEN_NUMBER"
                ELSE "TOKEN_IDENTIFIER"
    IN  [type |-> type,
         symref |-> IF type = "TOKEN_FN" THEN s.symref + 1 ELSE s.symref,
         hash |-> IF type = "TOKEN_FN" THEN s.symref + 1 ELSE 0,
         value |-> CASE type = "TOKEN_TRUE" -> rinha_value_bool_set_(TRUE)
                     [] type = "TOKEN_FALSE" -> rinha_value_bool_set_(FALSE)
                     [] type = "TOKEN_NUMBER" -> rinha_value_number_set_(atol(token))
                     [] OTHER -> Undefined]

RECURSIVE rinha_tokenize_space(_, _)
rinha_tokenize_space(src, p) ==
    IF isspace(Ch(src, p)) THEN rinha_tokenize_space(src, p + 1) ELSE p

RECURSIVE rinha_tokenize_string(_, _, _)
rinha_tokenize_string(src, p, quote) ==
    IF Ch(src, p) # NUL /\ Ch(src, p) # quote
    THEN rinha_tokenize_string(src, p + 1, quote)
    ELSE p

RECURSIVE rinha_tokenize_word(_, _)
rinha_tokenize_word(src, p) ==
    IF Ch(src, p) # NUL /\ ~isspace(Ch(src, p)) /\ ~rinha_isdelim(Ch(src, p))
    THEN rinha_tokenize_word(src, p + 1)
    ELSE p

\* One token: the lexeme src[token .. p-1] is stored, typed and interned.
rinha_tokenize_token(s, token, p, isString) ==
    LET lexname == SubSeq(s.src, token, Min(p - 1, Len(s.src)))
    IN  IF isString
        THEN LET sv == rinha_value_string_set_(s, lexname)
             IN  [sv.s EXCEPT
                    !.tokens = Append(@, [type |-> "TOKEN_STRING", lexname |-> lexname,
                                          hash |-> 0, value |-> sv.v]),
                    !.rinha_tok_count = @ + 1,
                    !.code_ptr = p + 1]
        ELSE LET d == rinha_discover_token_typeype_(s, lexname)
                 t == [type |-> d.type, lexname |-> lexname, hash |-> d.hash,
                       value |-> d.value]
                 ref == rinha_create_sym_ref([s EXCEPT !.symref = d.symref],
                                             Append(s.tokens, t), lexname)
             IN  [s EXCEPT
                    !.tokens = Append(@, IF d.type = "TOKEN_IDENTIFIER"
                                         THEN [t EXCEPT !.hash = ref.hash] ELSE t),
                    !.symref = IF d.type = "TOKEN_IDENTIFIER" THEN ref.symref ELSE d.symref,
                    !.rinha_tok_count = @ + 1,
                    !.code_ptr = p]

\* One turn of the while loop of rinha_tokenize_: white space, then a
\* comment, or a token that is dropped when a comment follows it at once, or
\* a token that is stored.
rinha_tokenize_(s) ==
    LET p1 == rinha_tokenize_space(s.src, s.code_ptr)
        c1 == rinha_test_is_comment(s.src, p1)
        ch == Ch(s.src, c1.p)
        isString == ch \in {"'", "\""}
        token == IF isString THEN c1.p + 1 ELSE p1
        p2 == IF isString THEN rinha_tokenize_string(s.src, c1.p + 1, ch)
              ELSE IF rinha_isdelim(ch) THEN c1.p + 1
              ELSE rinha_tokenize_word(s.src, c1.p)
        c2 == rinha_test_is_comment(s.src, p2)
    IN  IF Ch(s.src, p1) = NUL THEN [s EXCEPT !.code_ptr = p1]
        ELSE IF c1.r THEN [s EXCEPT !.code_ptr = c1.p]
        ELSE IF c2.r THEN [s EXCEPT !.code_ptr = c2.p]
        ELSE rinha_tokenize_token(s, token, c2.p, isString)

(***************************************************************************)
(* Frames, the function table, diagnostics and the print sink              *)
(***************************************************************************)
ZeroFrame == [mem |-> <<>>, count |-> 0]

ZeroCache ==
    [value |-> Undefined, input0 |-> Undefined, input1 |-> Undefined,
     input2 |-> Undefined, cached |-> FALSE]

\* calls[] is zeroed by rinha_clear_stack: a record that was never set
ZeroFunction ==
    [pc |-> 0, hash |-> 0, args |-> [count |-> 0, hash |-> <<>>, values |-> <<>>],
     cache_size |-> 0, cache_enabled |-> FALSE, cache_checked |-> FALSE,
     vars |-> 0, parent |-> NULL, env |-> <<>>, stack |-> NULL, cache |-> <<>>]

Call(s, f) == At(s.calls, f, ZeroFunction)

Mem(s, frame, hash) ==
    IF frame \in DOMAIN s.stacks THEN At(s.stacks[frame].mem, hash, Undefined) ELSE Undefined

\* a store through a pointer into stacks[frame].mem; outside the arrays it is
\* undefined behaviour
MemPut(s, frame, hash, value) ==
    IF frame \in DOMAIN s.stacks /\ hash \in 0..(STACK_MEM_SIZE - 1)
    THEN Live(s, [s EXCEPT !.stacks[frame].mem = Put(@, hash, value)])
    ELSE UB(s, "store outside the frame array")

CountUp(s, frame) ==
    IF frame \in DOMAIN s.stacks
    THEN Live(s, [s EXCEPT !.stacks[frame].count = @ + 1])
    ELSE s

rinha_token_advance(s) == Live(s, [s EXCEPT !.pc = @ + 1])

rinha_token_previous(s) == Live(s, [s EXCEPT !.pc = @ - 1])

rinha_next_token(s) == Tok(s, s.pc + 1)

rinha_prev_token(s) == Tok(s, s.pc - 1)

Cur(s) == Tok(s, s.pc)

\* rinha_error without its exit(): the diagnostic is written and the caller
\* goes on.  Claim C6 is what tells the two apart.
rinha_error_returning(s, msg) ==
    Live(s, [s EXCEPT !.stderr = Append(@, [msg |-> msg, token |-> Cur(s).lexname,
                                            type |-> Cur(s).type, stack |-> s.rinha_sp]),
                      !.stdout = @ \o <<"\n", "^", "\n">>])

\* The diagnostic goes to stderr, the caret line to stdout, and the process
\* exits with EXIT_FAILURE.
rinha_error(s, msg) ==
    Live(s, [s EXCEPT !.stderr = Append(@, [msg |-> msg, token |-> Cur(s).lexname,
                                            type |-> Cur(s).type, stack |-> s.rinha_sp]),
                      !.stdout = @ \o <<"\n", "^", "\n">>,
                      !.status = "exited"])

rinha_token_consume_(s, expected_type) ==
    IF Cur(s).type = expected_type
    THEN rinha_token_advance(s)
    ELSE rinha_error(s, "Consume token: Expected an identifier (%d) ")

\* what rinha_print_ writes for one value; end_char is '\n' or '\0'
RECURSIVE rinha_print_text(_, _, _)
rinha_print_text(s, value, lf) ==
    LET end_char == IF lf THEN "\n" ELSE NUL
    IN  CASE value.type = "STRING" -> Append(StringOf(s, value), end_char)
          [] value.type = "FUNCTION" ->
                <<"<", "#", "c", "l", "o", "s", "u", "r", "e", ">", end_char>>
          [] value.type = "INTEGER" -> Append(Decimal(value.number), end_char)
          [] value.type = "BOOLEAN" ->
                Append(IF value.boolean THEN <<"t", "r", "u", "e">>
                       ELSE <<"f", "a", "l", "s", "e">>, end_char)
          [] value.type = "TUPLE" ->
                <<"(">> \o rinha_print_text(s, value.tuple[1], FALSE) \o <<",">>
                \o rinha_print_text(s, value.tuple[2], FALSE) \o <<")", "\n">>
          [] OTHER -> <<"\n", "U", "N", "K", "N", "O", "W", "N", ":", " ", "-", ">", "\n">>

rinha_print_(s, value, lf, debug) ==
    IF s.on_tests /\ ~debug THEN s
    ELSE Live(s, [s EXCEPT !.stdout = @ \o rinha_print_text(s, value, lf)])

\* rinha_var_set_: an UNDEFINED value has its type guessed from its string,
\* which is a null pointer
rinha_var_set_(s, ctx, value, hash) ==
    IF value.type = "UNDEFINED"
    THEN CountUp(UB(s, "rinha_var_set_ reads the string of an undefined value"), ctx)
    ELSE LET c == rinha_var_copy(s, Mem(s, ctx, hash), value)
         IN  CountUp(MemPut(c.s, ctx, hash, c.v), ctx)

\* returns the slot (frame, symbol id) the pointer refers to
rinha_var_get_(s, ctx, hash) ==
    IF Mem(s, ctx, hash).type # "UNDEFINED"
    THEN [frame |-> ctx, hash |-> hash]
    ELSE [frame |-> 0, hash |-> hash]

Deref(s, var) == Mem(s, var.frame, var.hash)

rinha_function_set_(s, pc, hash) ==
    IF hash \notin 0..(RINHA_CONFIG_CALLS_SIZE - 1)
    THEN UB(s, "calls[] indexed outside the array")
    ELSE Live(s, [s EXCEPT !.calls = Put(@, hash,
            [Call(s, hash) EXCEPT !.pc = pc, !.hash = hash, !.args.count = 0,
                                  !.cache_size = 0,
                                  !.cache_enabled = s.RINHA_CONFIG_CACHE_ENABLE,
                                  !.cache_checked = FALSE])])

SetCall(s, f, rec) == Live(s, [s EXCEPT !.calls = Put(@, f, rec)])

rinha_call_parameter_add(s, f, hash) ==
    LET call == Call(s, f)
    IN  SetCall(s, f, [call EXCEPT !.args.hash = Put(@, call.args.count, hash),
                                   !.args.count = @ + 1])

ArgHash(call, index) == At(call.args.hash, index, 0)

rinha_function_param_init_(s, f, value, index) ==
    LET call == Call(s, f)
        c == rinha_var_copy(s, Mem(s, call.stack, ArgHash(call, index)), value)
    IN  CountUp(MemPut(c.s, call.stack, ArgHash(call, index), c.v), call.stack)

rinha_function_get_arg(s, f, index) ==
    Mem(s, Call(s, f).stack, ArgHash(Call(s, f), index))

\* exclusive or of two's-complement integers
RECURSIVE XorNat(_, _)
XorNat(a, b) ==
    IF a = 0 THEN b
    ELSE IF b = 0 THEN a
    ELSE (((a % 2) + (b % 2)) % 2) + 2 * XorNat(a \div 2, b \div 2)

Xor(a, b) ==
    CASE a >= 0 /\ b >= 0 -> XorNat(a, b)
      [] a < 0 /\ b >= 0 -> 0 - XorNat(0 - a - 1, b) - 1
      [] a >= 0 /\ b < 0 -> 0 - XorNat(a, 0 - b - 1) - 1
      [] OTHER -> XorNat(0 - a - 1, 0 - b - 1)

\* hash is an unsigned int: the final reduction sees 2^32 + hash when the
\* bit pattern is negative as an int
RECURSIVE rinha_hash_stack_from(_, _, _, _)
rinha_hash_stack_from(s, f, i, hash) ==
    LET call == Call(s, f)
        count == IF call.stack \in DOMAIN s.stacks THEN s.stacks[call.stack].count ELSE 0
        v == Mem(s, call.stack, ArgHash(call, i))
        h == IF v.type = "STRING" THEN rinha_hash_str_(StringOf(s, v)) ELSE NumberOf(s, v)
    IN  IF i < count
        THEN rinha_hash_stack_from(s, f, i + 1, rinha_hash_num(Xor(hash, h), i))
        ELSE IF hash >= 0 THEN hash % RINHA_CONFIG_CACHE_SIZE
        ELSE ((((65536 % RINHA_CONFIG_CACHE_SIZE) * (65536 % RINHA_CONFIG_CACHE_SIZE))
                 % RINHA_CONFIG_CACHE_SIZE) + hash) % RINHA_CONFIG_CACHE_SIZE

rinha_hash_stack_(s, f) == rinha_hash_stack_from(s, f, 0, 0)

(***************************************************************************)
(* The impurity scan and the block skipper                                 *)
(***************************************************************************)
rinha_check_call(s, f) ==
    s.cache_enabled /\ f # NULL /\ ~Call(s, f).cache_checked /\ Call(s, f).cache_enabled

\* ok is the verdict; the scan also counts the let-bound names in call->vars
rinha_check_cache_availability(s, f) ==
    LET call == Call(s, f)
        cur == Cur(s)
        nt == rinha_next_token(s)
        pt == rinha_prev_token(s)
        counted == IF pt.type = "TOKEN_LET"
                   THEN SetCall(s, f, [call EXCEPT !.vars = @ + 1])
                   ELSE s
        v == Deref(s, rinha_var_get_(s, s.stack_ctx, cur.hash))
    IN  IF call.args.count > 3 \/ call.args.count = 0 THEN [s |-> s, ok |-> FALSE]
        ELSE IF cur.type = "TOKEN_PRINT" THEN [s |-> s, ok |-> FALSE]
        ELSE IF cur.type = "TOKEN_IDENTIFIER"
        THEN IF /\ call.hash # cur.hash
                /\ v.type = "FUNCTION"
                /\ v.function # NULL
                /\ ~Call(s, v.function).cache_enabled
             THEN [s |-> counted, ok |-> FALSE]
             ELSE IF pt.type # "TOKEN_LET" /\ nt.type = "TOKEN_ASSIGN"
             THEN [s |-> counted, ok |-> FALSE]
             ELSE [s |-> counted, ok |-> TRUE]
        ELSE [s |-> s, ok |-> TRUE]

\* if (rinha_check_call(call)) call->cache_enabled = rinha_check_cache_availability(call);
ScanToken(s, f) ==
    IF rinha_check_call(s, f)
    THEN LET c == rinha_check_cache_availability(s, f)
         IN  SetCall(c.s, f, [Call(c.s, f) EXCEPT !.cache_enabled = c.ok])
    ELSE s

Checked(s, f) ==
    IF f # NULL THEN SetCall(s, f, [Call(s, f) EXCEPT !.cache_checked = TRUE]) ELSE s

OffTokens(s) == s.pc < 1 \/ s.pc > Len(s.tokens)

\* A frame of the interpreter's own call stack: the C function (and the
\* place in it) to go on with, and the locals it still needs.
K(function, at) ==
    [function |-> function, at |-> at, ret |-> Undefined, left |-> Undefined, type |-> "", hash |-> 0,
     f |-> NULL, index |-> 0, args |-> <<>>, pc |-> 0, frame |-> 0]

Push(s, fr) == Live(s, [s EXCEPT !.k = Append(@, fr)])

Enter(s, function) == Push(s, K(function, ""))

\* the value the ret pointer refers to
Ret(s, value) == Live(s, [s EXCEPT !.v = value])

rinha_expression_jump(s, f) ==
    Push(s, [K("rinha_expression_jump", "loop") EXCEPT !.f = f, !.index = 0])

\* one turn of the loop; fr.index is open_paren
rinha_expression_jump_loop(s, fr) ==
    LET type == Cur(s).type
        open == IF type = "TOKEN_LPAREN" THEN fr.index + 1
                ELSE IF type = "TOKEN_RPAREN" THEN fr.index - 1
                ELSE fr.index
    IN  IF type = "TOKEN_SEMICOLON" \/ type = "TOKEN_EOF" THEN Checked(s, fr.f)
        ELSE IF OffTokens(s) THEN Crash(s, "scan past the token array")
        ELSE IF type = "TOKEN_RPAREN" /\ fr.index = 0 THEN Checked(s, fr.f)
        ELSE IF open = 0 /\ type = "TOKEN_COMMA" THEN Checked(s, fr.f)
        ELSE Push(rinha_token_advance(ScanToken(s, fr.f)), [fr EXCEPT !.index = open])

rinha_block_jump_(s, f) ==
    IF Cur(s).type # "TOKEN_LBRACE" THEN rinha_expression_jump(s, f)
    ELSE Push(rinha_token_consume_(s, "TOKEN_LBRACE"),
              [K("rinha_block_jump_", "loop") EXCEPT !.f = f, !.index = 1])

\* one turn of the loop; fr.index is open_braces
rinha_block_jump_loop(s, fr) ==
    LET a == rinha_token_advance(ScanToken(s, fr.f))
        type == Cur(a).type
        open == IF type = "TOKEN_LBRACE" THEN fr.index + 1
                ELSE IF type = "TOKEN_RBRACE" THEN fr.index - 1
                ELSE fr.index
    IN  IF fr.index = 0 \/ Cur(s).type = "TOKEN_EOF"
        THEN rinha_token_consume_(Checked(s, fr.f), "TOKEN_RBRACE")
        ELSE IF OffTokens(s) THEN Crash(s, "scan past the token array")
        ELSE Push(a, [fr EXCEPT !.index = open])

(***************************************************************************)
(* The memo cache of a function.  With RINHA_CONFIG_CACHE_ENABLE false the *)
(* bodies of both operations are compiled out.                             *)
(***************************************************************************)
CacheAt(s, f, hash) == At(Call(s, f).cache, hash, ZeroCache)

\* hit tells whether ret was loaded from the cache
rinha_call_memo_cache_get_(s, f, ret, hash) ==
    LET call == Call(s, f)
        cache == CacheAt(s, f, hash)
        arg0 == rinha_function_get_arg(s, f, 0)
        arg1 == rinha_function_get_arg(s, f, 1)
        arg2 == rinha_function_get_arg(s, f, 2)
        miss == [s |-> s, v |-> ret, hit |-> FALSE]
        off == [s |-> SetCall(s, f, [call EXCEPT !.cache_enabled = FALSE]),
                v |-> ret, hit |-> FALSE]
        c == rinha_var_copy(s, ret, cache.value)
    IN  IF ~s.RINHA_CONFIG_CACHE_ENABLE THEN miss
        ELSE IF ~s.cache_enabled \/ ~call.cache_enabled THEN miss
        ELSE IF ~cache.cached THEN miss
        ELSE IF arg0.type # "UNDEFINED" /\ arg0.type # "INTEGER" THEN off
        ELSE IF arg1.type # "UNDEFINED" /\ arg1.type # "INTEGER" THEN off
        ELSE IF arg2.type # "UNDEFINED" /\ arg2.type # "INTEGER" THEN off
        ELSE IF \/ NumberOf(s, cache.input0) # NumberOf(s, arg0)
                \/ NumberOf(s, cache.input1) # NumberOf(s, arg1)
                \/ NumberOf(s, cache.input2) # NumberOf(s, arg2)
        THEN miss
        ELSE [s |-> c.s, v |-> c.v, hit |-> TRUE]

\* rinha_call_memo_cache_set_ without its collision test: the last writer
\* wins.  Claim C22 is what tells the two apart.
rinha_call_memo_cache_set_overwriting(s, f, value, hash) ==
    LET call == Call(s, f)
        cache == CacheAt(s, f, hash)
        c0 == rinha_var_copy(s, cache.input0, rinha_function_get_arg(s, f, 0))
        c1 == rinha_var_copy(c0.s, cache.input1, rinha_function_get_arg(s, f, 1))
        c2 == rinha_var_copy(c1.s, cache.input2, rinha_function_get_arg(s, f, 2))
        cv == rinha_var_copy(c2.s, cache.value, value)
        entry == [value |-> cv.v, input0 |-> c0.v, input1 |-> c1.v, input2 |-> c2.v,
                  cached |-> TRUE]
    IN  IF ~s.RINHA_CONFIG_CACHE_ENABLE THEN s
        ELSE IF ~s.cache_enabled \/ ~call.cache_enabled THEN s
        ELSE SetCall(cv.s, f, [call EXCEPT !.cache_size = @ + 1,
                                           !.cache = Put(@, hash, entry)])

rinha_call_memo_cache_set_(s, f, value, hash) ==
    LET call == Call(s, f)
        cache == CacheAt(s, f, hash)
        size == call.cache_size + 1
        c0 == rinha_var_copy(s, cache.input0, rinha_function_get_arg(s, f, 0))
        c1 == rinha_var_copy(c0.s, cache.input1, rinha_function_get_arg(s, f, 1))
        c2 == rinha_var_copy(c1.s, cache.input2, rinha_function_get_arg(s, f, 2))
        cv == rinha_var_copy(c2.s, cache.value, value)
        entry == [value |-> cv.v, input0 |-> c0.v, input1 |-> c1.v, input2 |-> c2.v,
                  cached |-> TRUE]
    IN  IF ~s.RINHA_CONFIG_CACHE_ENABLE THEN s
        ELSE IF ~s.cache_enabled \/ ~call.cache_enabled THEN s
        ELSE IF cache.cached THEN s
        ELSE IF size >= RINHA_CONFIG_CACHE_SIZE
        THEN SetCall(s, f, [call EXCEPT !.cache_size = size])
        ELSE SetCall(cv.s, f, [call EXCEPT !.cache_size = size,
                                           !.cache = Put(@, hash, entry)])

(***************************************************************************)
(* The evaluator, one C function at a time.  A function that calls         *)
(* another one pushes the place it continues at and then the callee; the   *)
(* value its ret pointer refers to travels in the register v.              *)
(***************************************************************************)
rinha_exec_expression_(s) == Enter(s, "rinha_exec_assign")

rinha_exec_identifier(s) ==
    IF Cur(s).type \in {"TOKEN_IDENTIFIER", "TOKEN_WILDCARD"}
    THEN rinha_token_advance(s)
    ELSE rinha_error(s, "Expected an identifier ")

rinha_print_statement_(s) ==
    rinha_exec_expression_(
        Push(rinha_token_consume_(rinha_token_consume_(s, "TOKEN_PRINT"), "TOKEN_LPAREN"),
             K("rinha_print_statement_", "print")))

\* a print that writes its argument and leaves nothing in ret.  Claim C13 is
\* what tells the two apart.
rinha_print_statement_void(s) ==
    LET p == rinha_print_(s, s.v, TRUE, FALSE)
    IN  Ret(Live(p, [p EXCEPT !.cache_enabled = FALSE]), Undefined)

rinha_print_statement_print(s) ==
    LET p == rinha_print_(s, s.v, TRUE, FALSE)
    IN  Live(p, [p EXCEPT !.cache_enabled = FALSE])

rinha_exec_first(s) ==
    rinha_exec_expression_(
        Push(rinha_token_consume_(rinha_token_consume_(s, "TOKEN_FIRST"), "TOKEN_LPAREN"),
             K("rinha_exec_first", "tuple")))

rinha_exec_first_tuple(s) ==
    IF s.v.type # "TUPLE"
    THEN rinha_error(rinha_token_previous(s), "first: Invalid argument, expected a tuple ")
    ELSE rinha_token_consume_(Ret(s, s.v.tuple[1]), "TOKEN_RPAREN")

rinha_exec_second(s) ==
    rinha_exec_expression_(
        Push(rinha_token_consume_(rinha_token_consume_(s, "TOKEN_SECOND"), "TOKEN_LPAREN"),
             K("rinha_exec_second", "tuple")))

rinha_exec_second_tuple(s) ==
    IF s.v.type # "TUPLE"
    THEN rinha_error(rinha_token_previous(s), "second: Invalid argument, expected a tuple ")
    ELSE rinha_token_consume_(Ret(s, s.v.tuple[2]), "TOKEN_RPAREN")

\* The members a comparison reads.  Two function values hold pointers: the
\* same record compares equal, two records compare as their low bytes do.
BooleanBits(s, v) ==
    CASE v.type = "BOOLEAN" -> <<"bool", v.boolean>>
      [] v.type = "FUNCTION" -> <<"function", IF s.ub_number # 0 THEN v.function ELSE 0>>
      [] OTHER -> <<"zero", FALSE>>

RECURSIVE rinha_cmp_eq(_, _, _)
RECURSIVE rinha_cmp_neq(_, _, _)

rinha_cmp_tuple_eq(s, left, right) ==
    LET a == rinha_cmp_eq(s, left[1], right[1])
    IN  IF a.v THEN rinha_cmp_eq(a.s, left[2], right[2]) ELSE a

\* rinha_cmp_tuple_neq with && for ||: tuples differ only when both components
\* do.  Claim C8 is what tells the two apart.
rinha_cmp_tuple_neq_both(s, left, right) ==
    LET a == rinha_cmp_neq(s, left[1], right[1])
    IN  IF a.v THEN rinha_cmp_neq(a.s, left[2], right[2]) ELSE a

rinha_cmp_tuple_neq(s, left, right) ==
    LET a == rinha_cmp_neq(s, left[1], right[1])
    IN  IF a.v THEN a ELSE rinha_cmp_neq(a.s, left[2], right[2])

rinha_cmp_eq(s, left, right) ==
    IF left.type # right.type
    THEN R(rinha_error(rinha_token_previous(s), "Comparison of different types"), FALSE)
    ELSE CASE left.type = "INTEGER" -> R(s, left.number = right.number)
           [] left.type = "STRING" -> R(s, StringOf(s, left) = StringOf(s, right))
           [] left.type = "TUPLE" -> rinha_cmp_tuple_eq(s, left.tuple, right.tuple)
           [] OTHER -> R(s, BooleanBits(s, left) = BooleanBits(s, right))

rinha_cmp_neq(s, left, right) ==
    IF left.type # right.type
    THEN R(rinha_error(rinha_token_previous(s), "Comparison of different types"), FALSE)
    ELSE CASE left.type = "INTEGER" -> R(s, left.number # right.number)
           [] left.type = "STRING" -> R(s, StringOf(s, left) # StringOf(s, right))
           [] left.type = "TUPLE" -> rinha_cmp_tuple_neq(s, left.tuple, right.tuple)
           [] OTHER -> R(s, BooleanBits(s, left) # BooleanBits(s, right))

\* A level of the binary operators: left = {0}; the operand; then the loop.
Operand(s, function, callee) ==
    Enter(Ret(Push(s, [K(function, "loop") EXCEPT !.ret = s.v]), Undefined), callee)

\* while the cursor is on an operator of the level: advance, right = {0},
\* the operand; otherwise rinha_var_copy(ret, &left)
OperatorLoop(s, fr, operators, callee) ==
    IF Cur(s).type \in operators
    THEN Enter(Ret(Push(rinha_token_advance(s),
                        [K(fr.function, "apply") EXCEPT !.ret = fr.ret, !.left = s.v, !.type = Cur(s).type]),
                   Undefined),
               callee)
    ELSE LET c == rinha_var_copy(s, fr.ret, s.v)
         IN  Ret(c.s, c.v)

ComparisonTokens ==
    {"TOKEN_EQ", "TOKEN_GTE", "TOKEN_LTE", "TOKEN_GT", "TOKEN_NEQ", "TOKEN_LT"}

rinha_exec_comparison_(s) == Operand(s, "rinha_exec_comparison_", "rinha_exec_calc_")

rinha_exec_comparison_loop(s, fr) ==
    OperatorLoop(s, fr, ComparisonTokens, "rinha_exec_calc_")

\* s.v is right; the relational operators read the number members
rinha_exec_comparison_apply(s, fr) ==
    LET l == NumberOf(s, fr.left)
        n == NumberOf(s, s.v)
        c == CASE fr.type = "TOKEN_EQ" -> rinha_cmp_eq(s, fr.left, s.v)
               [] fr.type = "TOKEN_NEQ" -> rinha_cmp_neq(s, fr.left, s.v)
               [] fr.type = "TOKEN_GTE" -> R(s, l >= n)
               [] fr.type = "TOKEN_LTE" -> R(s, l <= n)
               [] fr.type = "TOKEN_LT" -> R(s, l < n)
               [] OTHER -> R(s, l > n)
    IN  rinha_exec_comparison_loop(Ret(c.s, rinha_value_bool_set_(c.v)), fr)

rinha_exec_logical_and_(s) ==
    Operand(s, "rinha_exec_logical_and_", "rinha_exec_comparison_")

rinha_exec_logical_and_loop(s, fr) ==
    OperatorLoop(s, fr, {"TOKEN_AND"}, "rinha_exec_comparison_")

\* the loop body with || for &&.  Claim C12 is what tells the two apart.
rinha_exec_logical_and_either(s, fr) ==
    rinha_exec_logical_and_loop(
        Ret(s, rinha_value_bool_set_(BooleanOf(s, fr.left) \/ BooleanOf(s, s.v))), fr)

rinha_exec_logical_and_apply(s, fr) ==
    rinha_exec_logical_and_loop(
        Ret(s, rinha_value_bool_set_(BooleanOf(s, fr.left) /\ BooleanOf(s, s.v))), fr)

rinha_exec_logical_or_(s) ==
    Operand(s, "rinha_exec_logical_or_", "rinha_exec_logical_and_")

rinha_exec_logical_or_loop(s, fr) ==
    OperatorLoop(s, fr, {"TOKEN_OR"}, "rinha_exec_logical_and_")

rinha_exec_logical_or_apply(s, fr) ==
    rinha_exec_logical_or_loop(
        Ret(s, rinha_value_bool_set_(BooleanOf(s, fr.left) \/ BooleanOf(s, s.v))), fr)

\* hash is read before the left side is evaluated; var is looked up before
\* the right side is
rinha_exec_assign(s) ==
    Enter(Push(s, [K("rinha_exec_assign", "assign") EXCEPT !.hash = Cur(s).hash]),
          "rinha_exec_logical_or_")

rinha_exec_assign_assign(s, fr) ==
    LET var == rinha_var_get_(s, s.stack_ctx, fr.hash)
    IN  IF Cur(s).type = "TOKEN_ASSIGN"
        THEN Enter(Push(rinha_token_advance(s),
                        [K("rinha_exec_assign", "copy") EXCEPT !.frame = var.frame,
                                                            !.hash = var.hash]),
                   "rinha_exec_assign")
        ELSE s

\* rinha_exec_assign without the rinha_var_copy(&var->value, ret) of its last
\* line.  Claim C5 is what tells the two apart.
rinha_exec_assign_forget(s, fr) == s

rinha_exec_assign_copy(s, fr) ==
    LET c == rinha_var_copy(s, Mem(s, fr.frame, fr.hash), s.v)
    IN  MemPut(c.s, fr.frame, fr.hash, c.v)

\* after a let inside parentheses: ; continues with an expression, ) closes
rinha_exec_primary_paren(s) ==
    IF Cur(s).type = "TOKEN_COMMA"
    THEN rinha_exec_expression_(
            Ret(Push(rinha_token_consume_(s, "TOKEN_COMMA"),
                     [K("rinha_exec_primary_", "tuple") EXCEPT !.left = s.v]),
                Undefined))
    ELSE rinha_token_advance(s)

rinha_exec_primary_paren_let(s) ==
    CASE Cur(s).type = "TOKEN_SEMICOLON" ->
            rinha_exec_expression_(
                Push(rinha_token_advance(s), K("rinha_exec_primary_", "paren")))
      [] Cur(s).type = "TOKEN_RPAREN" -> rinha_exec_primary_paren(rinha_token_advance(s))
      [] OTHER -> rinha_exec_primary_paren(s)

\* s.v is second, fr.left the first component
rinha_exec_primary_tuple(s, fr) ==
    LET t == rinha_value_tuple_set_(s, fr.left, s.v)
    IN  rinha_token_advance(Ret(t.s, t.v))

rinha_exec_primary_let(s) ==
    CASE Cur(s).type = "TOKEN_SEMICOLON" ->
            rinha_exec_expression_(
                Push(rinha_token_advance(s), K("rinha_exec_primary_", "advance")))
      [] Cur(s).type = "TOKEN_RPAREN" -> rinha_token_advance(rinha_token_advance(s))
      [] OTHER -> rinha_token_advance(s)

rinha_exec_primary_(s) ==
    LET type == Cur(s).type
    IN  CASE type = "TOKEN_IDENTIFIER" ->
                LET v == Deref(s, rinha_var_get_(s, s.stack_ctx, Cur(s).hash))
                    c == rinha_var_copy(rinha_token_advance(s), s.v, v)
                IN  IF v.type = "UNDEFINED" THEN rinha_error(s, "Undefined symbol (Hash: %d) ")
                    ELSE IF v.type = "FUNCTION"
                    THEN Push(rinha_token_advance(s),
                              [K("rinha_call_function_", "") EXCEPT !.f = v.function])
                    ELSE Ret(c.s, c.v)
          [] type = "TOKEN_FN" ->
                Push(s, [K("rinha_prepare_closure", "") EXCEPT !.hash = Cur(s).hash])
          [] type = "TOKEN_NUMBER" ->
                LET c == rinha_var_copy(s, s.v, rinha_value_number_set_(atol(Cur(s).lexname)))
                IN  rinha_token_advance(Ret(c.s, c.v))
          [] type = "TOKEN_STRING" ->
                LET string == rinha_value_string_set_(s, Cur(s).lexname)
                    c == rinha_var_copy(string.s, s.v, string.v)
                IN  rinha_token_advance(Ret(c.s, c.v))
          [] type = "TOKEN_LPAREN" ->
                IF rinha_next_token(s).type = "TOKEN_LET"
                THEN Enter(Push(rinha_token_advance(s), K("rinha_exec_primary_", "paren_let")),
                           "rinha_exec_statement_")
                ELSE rinha_exec_expression_(
                        Push(rinha_token_advance(s), K("rinha_exec_primary_", "paren")))
          [] type \in {"TOKEN_TRUE", "TOKEN_FALSE"} ->
                LET c == rinha_var_copy(s, s.v, Cur(s).value)
                IN  rinha_token_advance(Ret(c.s, c.v))
          [] type = "TOKEN_FIRST" -> rinha_exec_first(s)
          [] type = "TOKEN_SECOND" -> rinha_exec_second(s)
          [] type = "TOKEN_LET" ->
                Enter(Push(s, K("rinha_exec_primary_", "let")), "rinha_exec_statement_")
          [] type = "TOKEN_PRINT" ->
                rinha_print_statement_(Push(s, K("rinha_exec_primary_", "advance")))
          [] type = "TOKEN_IF" -> Enter(s, "rinha_exec_if_statement_")
          [] type \in {"TOKEN_RBRACE", "TOKEN_SEMICOLON", "TOKEN_RPAREN"} ->
                rinha_token_advance(s)
          [] type = "TOKEN_EOF" -> s
          [] OTHER -> rinha_error(s, "Token undefined")

TermTokens == {"TOKEN_MULTIPLY", "TOKEN_DIVIDE", "TOKEN_MOD"}

rinha_exec_term_(s) == Enter(Push(s, K("rinha_exec_term_", "loop")), "rinha_exec_primary_")

rinha_exec_term_loop(s) ==
    IF Cur(s).type \in TermTokens
    THEN Enter(Ret(Push(rinha_token_advance(s),
                        [K("rinha_exec_term_", "apply") EXCEPT !.left = s.v,
                                                            !.type = Cur(s).type]),
                   Undefined),
               "rinha_exec_primary_")
    ELSE s

\* left->number op= right.number.  A zero divisor is undefined behaviour, and
\* so is the store into the number member of a value that holds a pointer.
TermApply(s, fr) ==
    LET left == fr.left
        l == NumberOf(s, left)
        n == NumberOf(s, s.v)
    IN  IF fr.type # "TOKEN_MULTIPLY" /\ n = 0
        THEN Ret(UB(s, "division by zero"),
                 IF left.type = "INTEGER" THEN rinha_value_number_set_(s.ub_number) ELSE left)
        ELSE IF left.type = "INTEGER"
        THEN Ret(s, rinha_value_number_set_(
                        CASE fr.type = "TOKEN_MULTIPLY" -> l * n
                          [] fr.type = "TOKEN_DIVIDE" -> CDiv(l, n)
                          [] OTHER -> CRem(l, n)))
        ELSE IF left.type \in {"UNDEFINED", "TUPLE"} THEN Ret(s, left)
        ELSE Ret(UB(s, "arithmetic on the number member of a non-integer"), left)

rinha_exec_term_apply(s, fr) == rinha_exec_term_loop(TermApply(s, fr))

\* sprintf into tmp, then strncpy into the left string.  %d is handed an
\* int64_t, and for a boolean the pointer BOOL_NAME yields; a value that is
\* not a string is read through its string pointer.
rinha_value_concat_(s, left, right) ==
    LET lt == left.type
        rt == right.type
        tmp == CASE lt = "INTEGER" /\ rt = "STRING" ->
                      Decimal(left.number) \o StringOf(s, right)
                 [] lt = "STRING" /\ rt = "INTEGER" ->
                      StringOf(s, left) \o Decimal(right.number)
                 [] lt = "STRING" /\ rt = "BOOLEAN" ->
                      StringOf(s, left) \o Decimal(s.ub_number)
                 [] lt = "BOOLEAN" /\ rt = "STRING" ->
                      Decimal(s.ub_number) \o StringOf(s, right)
                 [] OTHER -> StringOf(s, left) \o StringOf(s, right)
        inplace == lt = "STRING" /\ rt \in {"INTEGER", "BOOLEAN"}
        wild == ~inplace /\ ~(lt \in {"INTEGER", "BOOLEAN"} /\ rt = "STRING")
                /\ ~(lt = "STRING" /\ rt = "STRING")
        s0 == IF wild THEN UB(s, "concat reads a string pointer of a non-string") ELSE s
        s1 == IF Len(tmp) >= RINHA_CONFIG_STRING_VALUE_SIZE
              THEN UB(s0, "sprintf past the end of tmp") ELSE s0
        a == rinha_alloc_static_string(s1)
        slot == IF inplace THEN left.string ELSE a.slot
        s2 == IF inplace THEN s1 ELSE a.s
        text == SubSeq(tmp, 1, Min(Len(tmp), RINHA_CONFIG_STRING_VALUE_SIZE))
    IN  R(Live(s2, [s2 EXCEPT !.string_pool = Put(@, slot, text)]),
          [Undefined EXCEPT !.type = "STRING", !.string = slot])

CalcTokens == {"TOKEN_PLUS", "TOKEN_MINUS"}

rinha_exec_calc_(s) == Enter(Push(s, K("rinha_exec_calc_", "loop")), "rinha_exec_term_")

rinha_exec_calc_loop(s) ==
    IF Cur(s).type \in CalcTokens
    THEN Enter(Ret(Push(rinha_token_advance(s),
                        [K("rinha_exec_calc_", "apply") EXCEPT !.left = s.v,
                                                            !.type = Cur(s).type]),
                   Undefined),
               "rinha_exec_term_")
    ELSE s

rinha_exec_calc_apply(s, fr) ==
    LET l == NumberOf(s, fr.left)
        n == NumberOf(s, s.v)
        c == rinha_value_concat_(s, fr.left, s.v)
    IN  IF fr.type = "TOKEN_PLUS" /\ (fr.left.type # "INTEGER" \/ s.v.type # "INTEGER")
        THEN rinha_exec_calc_loop(Ret(c.s, c.v))
        ELSE rinha_exec_calc_loop(
                Ret(s, rinha_value_number_set_(IF fr.type = "TOKEN_PLUS" THEN l + n ELSE l - n)))

(***************************************************************************)
(* Closures and calls                                                      *)
(***************************************************************************)
\* the parameter list: every identifier up to ) becomes a parameter
RECURSIVE ClosureParameters(_, _)
ClosureParameters(s, f) ==
    IF Halted(s) \/ Cur(s).type = "TOKEN_RPAREN" THEN s
    ELSE IF OffTokens(s) THEN Crash(s, "scan past the token array")
    ELSE LET p == IF Cur(s).type = "TOKEN_IDENTIFIER"
                  THEN rinha_call_parameter_add(s, f, Cur(s).hash)
                  ELSE s
             a == rinha_token_advance(p)
         IN  ClosureParameters(SetCall(a, f, [Call(a, f) EXCEPT !.vars = @ + 1]), f)

\* the slots 0 .. RINHA_CONFIG_SYMBOLS_SIZE-1 that hold a value, in order
Defined(arr) ==
    {i \in (DOMAIN arr) \cap (0..(RINHA_CONFIG_SYMBOLS_SIZE - 1)) : arr[i].type # "UNDEFINED"}

\* the environment snapshot: every defined slot of the creating frame
RECURSIVE ClosureEnvironment(_, _, _)
ClosureEnvironment(s, f, slots) ==
    IF slots = {} THEN s
    ELSE LET i == CHOOSE x \in slots : \A y \in slots : x <= y
             c == rinha_var_copy(s, At(Call(s, f).env, i, Undefined), Mem(s, s.stack_ctx, i))
         IN  ClosureEnvironment(
                SetCall(c.s, f, [Call(c.s, f) EXCEPT !.env = Put(@, i, c.v), !.vars = @ + 1]),
                f, slots \ {i})

rinha_prepare_closure(s, fr) ==
    LET f == fr.hash
        s0 == rinha_function_set_(s, s.pc, fr.hash)
        s1 == rinha_token_consume_(rinha_token_consume_(s0, "TOKEN_FN"), "TOKEN_LPAREN")
        s2 == ClosureParameters(SetCall(s1, f, [Call(s1, f) EXCEPT !.vars = 0]), f)
        s3 == SetCall(s2, f, [Call(s2, f) EXCEPT !.parent = s2.stack_ctx])
        fn == rinha_value_caller_set_(s.v, f)
        s4 == rinha_var_set_(Ret(s3, fn), s3.stack_ctx, fn, fr.hash)
        s5 == IF s4.rinha_sp > 0
              THEN ClosureEnvironment(s4, f, Defined(s4.stacks[s4.stack_ctx].mem))
              ELSE s4
        s6 == rinha_token_consume_(rinha_token_consume_(s5, "TOKEN_RPAREN"), "TOKEN_ARROW")
        s7 == SetCall(s6, f, [Call(s6, f) EXCEPT !.pc = s6.pc])
    IN  rinha_block_jump_(
            Push(s7, [K("rinha_prepare_closure", "invoke") EXCEPT !.f = f, !.pc = s.pc]), f)

\* ( args ) right after the closure: the values are kept in call->args.values
\* and the call is made with the cursor on the parameter list (token_ctx + 1)
rinha_prepare_closure_arguments(s, fr) ==
    IF Cur(s).type = "TOKEN_RPAREN"
    THEN Push(Push(Live(s, [s EXCEPT !.pc = fr.pc + 1]),
                   [K("rinha_prepare_closure", "end") EXCEPT !.pc = s.pc]),
              [K("rinha_call_function_", "") EXCEPT !.f = fr.f])
    ELSE IF OffTokens(s) THEN Crash(s, "scan past the token array")
    ELSE rinha_exec_expression_(
            Push(rinha_token_advance(s), [fr EXCEPT !.at = "store"]))

rinha_prepare_closure_invoke(s, fr) ==
    IF Cur(s).type = "TOKEN_RPAREN" /\ rinha_next_token(s).type = "TOKEN_LPAREN"
    THEN rinha_prepare_closure_arguments(rinha_token_advance(s), [fr EXCEPT !.index = 0])
    ELSE s

rinha_prepare_closure_store(s, fr) ==
    LET c == rinha_var_copy(s, At(Call(s, fr.f).args.values, fr.index, Undefined), s.v)
    IN  rinha_prepare_closure_arguments(
            SetCall(c.s, fr.f, [Call(c.s, fr.f) EXCEPT !.args.values = Put(@, fr.index, c.v)]),
            [fr EXCEPT !.index = @ + 1])

rinha_prepare_closure_end(s, fr) == rinha_token_advance(Live(s, [s EXCEPT !.pc = fr.pc]))

\* the test with > for >=: one call too many is let through.  Claim C10 is
\* what tells the two apart.
StackOverflowBeyond(s) == s.rinha_sp + 1 > RINHA_CONFIG_STACK_SIZE

\* if (rinha_sp+1 >= RINHA_CONFIG_STACK_SIZE)
StackOverflow(s) == s.rinha_sp + 1 >= RINHA_CONFIG_STACK_SIZE

\* the snapshot is copied into the new frame
RECURSIVE InstallEnvironment(_, _, _)
InstallEnvironment(s, f, slots) ==
    IF slots = {} THEN s
    ELSE LET i == CHOOSE x \in slots : \A y \in slots : x <= y
             c == rinha_var_copy(s, Mem(s, Call(s, f).stack, i), Call(s, f).env[i])
         IN  InstallEnvironment(MemPut(c.s, Call(s, f).stack, i, c.v), f, slots \ {i})

RECURSIVE InstallParameters(_, _, _, _)
InstallParameters(s, f, args, i) ==
    IF i >= Call(s, f).args.count THEN s
    ELSE InstallParameters(
            rinha_function_param_init_(s, f, At(args, i, Undefined), i), f, args, i + 1)

\* the return without --rinha_sp: the frame of the callee stays the current
\* one.  Claim C26 is what tells the two apart.
rinha_exec_function_staying(s, f, current_pc) ==
    LET stack == Call(s, f).stack
        s1 == IF stack \in DOMAIN s.stacks
              THEN Live(s, [s EXCEPT !.stacks[stack].count = 0])
              ELSE s
    IN  rinha_token_advance(Live(s1, [s1 EXCEPT !.pc = current_pc]))

\* after the body, or after a cache hit
rinha_exec_function_leave(s, f, current_pc) ==
    LET sp == s.rinha_sp - 1
        stack == Call(s, f).stack
        s1 == IF stack \in DOMAIN s.stacks
              THEN Live(s, [s EXCEPT !.stacks[stack].count = 0])
              ELSE s
        s2 == Live(s1, [s1 EXCEPT !.rinha_sp = sp, !.stack_ctx = sp, !.pc = current_pc])
    IN  rinha_token_advance(SetCall(s2, f, [Call(s2, f) EXCEPT !.stack = sp]))

rinha_exec_function_(s, f, ret, args) ==
    LET s1 == IF s.rinha_sp = 0
              THEN Live(s, [s EXCEPT !.cache_enabled = s.RINHA_CONFIG_CACHE_ENABLE])
              ELSE s
        s2 == Live(s1, [s1 EXCEPT !.stack_ctx = s.rinha_sp, !.rinha_sp = s.rinha_sp + 1])
        s3 == SetCall(s2, f, [Call(s2, f) EXCEPT !.stack = s.rinha_sp + 1])
        s4 == InstallParameters(InstallEnvironment(s3, f, Defined(Call(s3, f).env)),
                                f, args, 0)
        hash == IF s4.cache_enabled /\ Call(s4, f).cache_enabled
                THEN rinha_hash_stack_(s4, f) ELSE 0
        get == rinha_call_memo_cache_get_(s4, f, ret, hash)
        body == Live(get.s, [get.s EXCEPT !.stack_ctx = Call(get.s, f).stack,
                                          !.pc = Call(get.s, f).pc])
    IN  IF get.hit THEN rinha_exec_function_leave(Ret(get.s, get.v), f, s.pc)
        ELSE Enter(Push(Ret(body, ret),
                        [K("rinha_exec_function_", "return") EXCEPT !.f = f, !.hash = hash,
                                                                 !.pc = s.pc]),
                   "rinha_exec_block_")

rinha_exec_function_return(s, fr) ==
    rinha_exec_function_leave(rinha_call_memo_cache_set_(s, fr.f, s.v, fr.hash), fr.f, fr.pc)

\* rinha_value_t args[RINHA_CONFIG_FUNCTION_ARGS_SIZE] is a local array and
\* the loop runs to call->args.count: a store into args[index] past its end is
\* undefined behaviour
ArgsStore(s, index) ==
    IF index >= RINHA_CONFIG_FUNCTION_ARGS_SIZE
    THEN UB(s, "args[] indexed outside the array")
    ELSE s

\* args[] is filled from the values kept by rinha_prepare_closure, or by
\* evaluating the argument expressions; fr.ret is the caller's ret
RECURSIVE rinha_call_function_arguments(_, _)
rinha_call_function_arguments(s, fr) ==
    LET preset == At(Call(s, fr.f).args.values, fr.index, Undefined)
        c == rinha_var_copy(s, Undefined, preset)
    IN  IF Halted(s) THEN s
        ELSE IF fr.index >= Call(s, fr.f).args.count
        THEN rinha_exec_function_(s, fr.f, fr.ret, fr.args)
        ELSE IF preset.type # "UNDEFINED"
        THEN rinha_call_function_arguments(ArgsStore(c.s, fr.index),
                [fr EXCEPT !.args = Put(@, fr.index, c.v), !.index = @ + 1])
        ELSE rinha_exec_expression_(
                Ret(Push(s, [fr EXCEPT !.at = "store"]), Undefined))

rinha_call_function_store(s, fr) ==
    rinha_call_function_arguments(
        ArgsStore(IF Cur(s).type = "TOKEN_COMMA" THEN rinha_token_advance(s) ELSE s,
                  fr.index),
        [fr EXCEPT !.args = Put(@, fr.index, s.v), !.index = @ + 1])

rinha_call_function_(s, fr) ==
    LET checked == IF StackOverflow(s) THEN rinha_error(s, "Stack overflow!") ELSE s
    IN  IF Cur(s).type # "TOKEN_LPAREN" THEN Ret(s, rinha_value_caller_set_(s.v, fr.f))
        ELSE rinha_call_function_arguments(
                rinha_token_consume_(checked, "TOKEN_LPAREN"),
                [fr EXCEPT !.ret = s.v, !.index = 0, !.args = <<>>])

(***************************************************************************)
(* Statements                                                              *)
(***************************************************************************)
rinha_exec_block_loop(s) ==
    IF Cur(s).type = "TOKEN_RBRACE" THEN rinha_token_consume_(s, "TOKEN_RBRACE")
    ELSE Enter(Push(s, K("rinha_exec_block_", "loop")), "rinha_exec_statement_")

rinha_exec_block_(s) ==
    IF Cur(s).type # "TOKEN_LBRACE" THEN Enter(s, "rinha_exec_statement_")
    ELSE rinha_exec_block_loop(rinha_token_consume_(s, "TOKEN_LBRACE"))

\* jmp_pc1 and jmp_pc2 are fields of the token the cursor is on when they are
\* read or written
JumpTo(s, target) == rinha_token_advance(Live(s, [s EXCEPT !.pc = target]))

rinha_exec_if_statement_(s) ==
    Enter(Push(rinha_token_consume_(rinha_token_consume_(s, "TOKEN_IF"), "TOKEN_LPAREN"),
               K("rinha_exec_if_statement_", "condition")),
          "rinha_exec_logical_or_")

rinha_exec_if_statement_else(s) ==
    IF Cur(s).type = "TOKEN_ELSE"
    THEN Enter(rinha_token_consume_(s, "TOKEN_ELSE"), "rinha_exec_block_")
    ELSE s

rinha_exec_if_statement_condition(s) ==
    LET s1 == rinha_token_consume_(s, "TOKEN_RPAREN")
    IN  IF BooleanOf(s1, s1.v)
        THEN Enter(Push(s1, K("rinha_exec_if_statement_", "then")), "rinha_exec_block_")
        ELSE IF At(s1.jmp_pc2, s1.pc, 0) = 0
        THEN rinha_block_jump_(Push(s1, K("rinha_exec_if_statement_", "jumped")), NULL)
        ELSE rinha_exec_if_statement_else(JumpTo(s1, s1.jmp_pc2[s1.pc]))

rinha_exec_if_statement_jumped(s) ==
    rinha_exec_if_statement_else(Live(s, [s EXCEPT !.jmp_pc2 = Put(@, s.pc, s.pc)]))

rinha_exec_if_statement_skipped(s) == Live(s, [s EXCEPT !.jmp_pc1 = Put(@, s.pc, s.pc)])

\* the true branch without the jump over the else block: the else block is
\* executed after the then-block.  Claim C24 is what tells the two apart.
rinha_exec_if_statement_falling(s) == rinha_exec_if_statement_else(s)

rinha_exec_if_statement_then(s) ==
    IF At(s.jmp_pc1, s.pc, 0) # 0 THEN JumpTo(s, s.jmp_pc1[s.pc])
    ELSE IF Cur(s).type = "TOKEN_ELSE"
    THEN rinha_block_jump_(Push(rinha_token_consume_(s, "TOKEN_ELSE"),
                                K("rinha_exec_if_statement_", "skipped")), NULL)
    ELSE rinha_exec_if_statement_skipped(s)

\* the banner: a frame as wide as the dialog, the dialog, and the drawing
rinha_yaswoc(s) ==
    LET s1 == rinha_token_consume_(rinha_token_consume_(s, "TOKEN_YASWOC"), "TOKEN_LPAREN")
        dialog == Cur(s1).lexname
        a == rinha_alloc_static_string(s1)
        l == Len(dialog)
        text == <<" ">> \o SubSeq(<<"_", "_", "_", "_", "_", "_", "_", "_">>, 1, l - 1)
                \o <<"\n", "<", " ">> \o dialog \o <<" ", ">", "\n", " ">>
                \o SubSeq(<<"-", "-", "-", "-", "-", "-", "-", "-">>, 1, l)
                \o <<"\n", "w", "o", "c", "\n">>
        s2 == Live(a.s, [a.s EXCEPT !.string_pool = Put(@, a.slot, text)])
        v == [Undefined EXCEPT !.type = "STRING", !.string = a.slot]
    IN  rinha_token_advance(rinha_print_(s2, v, TRUE, FALSE))

rinha_exec_statement_let(s, fr) == rinha_var_set_(s, s.stack_ctx, s.v, fr.hash)

rinha_exec_statement_paren(s) ==
    IF Cur(s).type = "TOKEN_COMMA"
    THEN rinha_exec_expression_(
            Ret(Push(rinha_token_advance(s),
                     [K("rinha_exec_statement_", "tuple") EXCEPT !.left = s.v]),
                Undefined))
    ELSE s

\* s.v is second, fr.left what ret refers to
rinha_exec_statement_tuple(s, fr) ==
    LET t == rinha_value_tuple_set_(s, fr.left, s.v)
    IN  rinha_token_advance(Ret(t.s, t.v))

rinha_exec_statement_(s) ==
    LET type == Cur(s).type
    IN  CASE type = "TOKEN_LET" ->
                LET s1 == rinha_token_consume_(s, "TOKEN_LET")
                    hash == Cur(s1).hash
                    name == Cur(s1).type
                    s2 == rinha_token_consume_(rinha_exec_identifier(s1), "TOKEN_ASSIGN")
                IN  IF name = "TOKEN_WILDCARD" THEN s2
                    ELSE IF Cur(s2).type = "TOKEN_FN"
                    THEN Push(s2, [K("rinha_prepare_closure", "") EXCEPT !.hash = hash])
                    ELSE rinha_exec_expression_(
                            Push(s2, [K("rinha_exec_statement_", "let") EXCEPT !.hash = hash]))
          [] type = "TOKEN_FN" ->
                Push(s, [K("rinha_prepare_closure", "") EXCEPT !.hash = Cur(s).hash])
          [] type = "TOKEN_PRINT" -> rinha_print_statement_(s)
          [] type \in {"TOKEN_RBRACE", "TOKEN_SEMICOLON", "TOKEN_RPAREN"} ->
                rinha_token_advance(s)
          [] type = "TOKEN_LPAREN" ->
                rinha_exec_expression_(
                    Push(rinha_token_advance(s), K("rinha_exec_statement_", "paren")))
          [] type = "TOKEN_YASWOC" -> rinha_yaswoc(s)
          [] type = "TOKEN_LBRACE" ->
                \* no break: the block is followed by an expression
                Enter(rinha_exec_expression_(s), "rinha_exec_block_")
          [] type \in {"TOKEN_IDENTIFIER", "TOKEN_SECOND", "TOKEN_FIRST", "TOKEN_NUMBER",
                       "TOKEN_STRING", "TOKEN_TRUE", "TOKEN_FALSE"} ->
                rinha_exec_expression_(s)
          [] type = "TOKEN_IF" -> rinha_exec_if_statement_(s)
          [] OTHER -> rinha_error(s, "Unexpected token")

\* one turn of the loop
rinha_exec_program_(s) ==
    IF Cur(s).type = "TOKEN_EOF" THEN s
    ELSE Enter(Push(s, K("rinha_exec_program_", "")), "rinha_exec_statement_")

(***************************************************************************)
(* rinha_script_exec                                                       *)
(***************************************************************************)
\* tokens = NULL and the memset of calls[], tmp and string_pool.  The static
\* cache_enabled, pool_index and the jump tables are not touched.
rinha_clear_stack(s) ==
    [s EXCEPT !.tokens = <<>>, !.calls = <<>>,
              !.string_pool = [i \in DOMAIN @ |-> <<>>]]

\* calloc of the frames, rinha_clear_context, and the tokenizer is entered;
\* its calloc of the token array leaves every jmp_pc1 and jmp_pc2 NULL
rinha_script_exec(s, test) ==
    [s EXCEPT !.stacks = [i \in 0..(RINHA_CONFIG_STACK_SIZE - 1) |-> ZeroFrame],
              !.stack_ctx = 0, !.rinha_sp = 0, !.rinha_tok_count = 0,
              !.symref = 0, !.on_tests = test, !.code_ptr = 1,
              !.tokens = <<>>, !.jmp_pc1 = <<>>, !.jmp_pc2 = <<>>,
              !.status = "lexing"]

\* at the end of the source: the EOF token, the cursor on the first token,
\* ret = {0}, and rinha_exec_program_ is called
rinha_script_exec_tokenized(s) ==
    IF Ch(s.src, s.code_ptr) # NUL THEN s
    ELSE [s EXCEPT !.tokens = Append(@, [ZeroToken EXCEPT !.type = "TOKEN_EOF"]),
                   !.rinha_tok_count = @ + 1,
                   !.pc = 1,
                   !.v = Undefined,
                   !.k = <<K("rinha_script_exec", "return"), K("rinha_exec_program_", "")>>,
                   !.status = "running"]

\* *response = ret; free(stacks); return true
rinha_script_exec_return(s) ==
    Live(s, [s EXCEPT !.response = s.v, !.stacks = <<>>, !.stack_ctx = NULL,
                      !.status = "returned"])

(***************************************************************************)
(* Scripts                                                                 *)
(***************************************************************************)
\* let fib = fn (n) => { if (n < 2) { n } else { fib(n - 1) + fib(n - 2) } }; print(fib(3))
Fib ==
    <<"l", "e", "t", " ", "f", "i", "b", " ", "=", " ", "f", "n", " ", "(", "n", ")", " ",
      "=", ">", " ", "{", " ", "i", "f", " ", "(", "n", " ", "<", " ", "2", ")", " ", "{",
      " ", "n", " ", "}", " ", "e", "l", "s", "e", " ", "{", " ", "f", "i", "b", "(", "n",
      " ", "-", " ", "1", ")", " ", "+", " ", "f", "i", "b", "(", "n", " ", "-", " ", "2",
      ")", " ", "}", " ", "}", ";", " ", "p", "r", "i", "n", "t", "(", "f", "i", "b", "(",
      "3", ")", ")">>

\* let odd = fn (n) => { if (n == 0) { false } else { even(n - 1) } }; let even = fn (n) => { if (n == 0) { true } else { odd(n - 1) } }; let a = even(2); even(2)
Mutual ==
    <<"l", "e", "t", " ", "o", "d", "d", " ", "=", " ", "f", "n", " ", "(", "n", ")", " ",
      "=", ">", " ", "{", " ", "i", "f", " ", "(", "n", " ", "=", "=", " ", "0", ")", " ",
      "{", " ", "f", "a", "l", "s", "e", " ", "}", " ", "e", "l", "s", "e", " ", "{", " ",
      "e", "v", "e", "n", "(", "n", " ", "-", " ", "1", ")", " ", "}", " ", "}", ";", " ",
      "l", "e", "t", " ", "e", "v", "e", "n", " ", "=", " ", "f", "n", " ", "(", "n", ")",
      " ", "=", ">", " ", "{", " ", "i", "f", " ", "(", "n", " ", "=", "=", " ", "0", ")",
      " ", "{", " ", "t", "r", "u", "e", " ", "}", " ", "e", "l", "s", "e", " ", "{", " ",
      "o", "d", "d", "(", "n", " ", "-", " ", "1", ")", " ", "}", " ", "}", ";", " ", "l",
      "e", "t", " ", "a", " ", "=", " ", "e", "v", "e", "n", "(", "2", ")", ";", " ", "e",
      "v", "e", "n", "(", "2", ")">>

\* let mk = fn (x) => { let add = fn (y) => { x + y }; add(5) }; let a = mk(1); mk(2)
Inner ==
    <<"l", "e", "t", " ", "m", "k", " ", "=", " ", "f", "n", " ", "(", "x", ")", " ", "=",
      ">", " ", "{", " ", "l", "e", "t", " ", "a", "d", "d", " ", "=", " ", "f", "n", " ",
      "(", "y", ")", " ", "=", ">", " ", "{", " ", "x", " ", "+", " ", "y", " ", "}", ";",
      " ", "a", "d", "d", "(", "5", ")", " ", "}", ";", " ", "l", "e", "t", " ", "a", " ",
      "=", " ", "m", "k", "(", "1", ")", ";", " ", "m", "k", "(", "2", ")">>

\* let g = fn (n) => { n }; let f = fn (n) => { g(n) }; let a = f(1); let g = fn (n) => { print(n) }; f(1)
Impure ==
    <<"l", "e", "t", " ", "g", " ", "=", " ", "f", "n", " ", "(", "n", ")", " ", "=", ">",
      " ", "{", " ", "n", " ", "}", ";", " ", "l", "e", "t", " ", "f", " ", "=", " ", "f",
      "n", " ", "(", "n", ")", " ", "=", ">", " ", "{", " ", "g", "(", "n", ")", " ", "}",
      ";", " ", "l", "e", "t", " ", "a", " ", "=", " ", "f", "(", "1", ")", ";", " ", "l",
      "e", "t", " ", "g", " ", "=", " ", "f", "n", " ", "(", "n", ")", " ", "=", ">", " ",
      "{", " ", "p", "r", "i", "n", "t", "(", "n", ")", " ", "}", ";", " ", "f", "(", "1",
      ")">>

\* let x = 1; let f = fn () => { x }; print(f()); let x = 2; print(f())
ClosureAtTopLevel ==
    <<"l", "e", "t", " ", "x", " ", "=", " ", "1", ";", " ", "l", "e", "t", " ", "f", " ",
      "=", " ", "f", "n", " ", "(", ")", " ", "=", ">", " ", "{", " ", "x", " ", "}", ";",
      " ", "p", "r", "i", "n", "t", "(", "f", "(", ")", ")", ";", " ", "l", "e", "t", " ",
      "x", " ", "=", " ", "2", ";", " ", "p", "r", "i", "n", "t", "(", "f", "(", ")", ")">>

\* let mk = fn (x) => { let f = fn () => { x }; print(f()); x = 2; print(f()) }; mk(1)
ClosureInFrame ==
    <<"l", "e", "t", " ", "m", "k", " ", "=", " ", "f", "n", " ", "(", "x", ")", " ", "=",
      ">", " ", "{", " ", "l", "e", "t", " ", "f", " ", "=", " ", "f", "n", " ", "(", ")",
      " ", "=", ">", " ", "{", " ", "x", " ", "}", ";", " ", "p", "r", "i", "n", "t", "(",
      "f", "(", ")", ")", ";", " ", "x", " ", "=", " ", "2", ";", " ", "p", "r", "i", "n",
      "t", "(", "f", "(", ")", ")", " ", "}", ";", " ", "m", "k", "(", "1", ")">>

\* let a = (1, 2); print(a); print(first((a, 3)))
NestedTuple ==
    <<"l", "e", "t", " ", "a", " ", "=", " ", "(", "1", ",", " ", "2", ")", ";", " ", "p",
      "r", "i", "n", "t", "(", "a", ")", ";", " ", "p", "r", "i", "n", "t", "(", "f", "i",
      "r", "s", "t", "(", "(", "a", ",", " ", "3", ")", ")", ")">>

\* let t = (1, "a"); print(first(t)); print(second(t))
Tuples ==
    <<"l", "e", "t", " ", "t", " ", "=", " ", "(", "1", ",", " ", "\"", "a", "\"", ")",
      ";", " ", "p", "r", "i", "n", "t", "(", "f", "i", "r", "s", "t", "(", "t", ")", ")",
      ";", " ", "p", "r", "i", "n", "t", "(", "s", "e", "c", "o", "n", "d", "(", "t", ")",
      ")">>

\* let a = 0; let b = 0; print(a = b = 5); print(a); print(b)
Assign ==
    <<"l", "e", "t", " ", "a", " ", "=", " ", "0", ";", " ", "l", "e", "t", " ", "b", " ",
      "=", " ", "0", ";", " ", "p", "r", "i", "n", "t", "(", "a", " ", "=", " ", "b", " ",
      "=", " ", "5", ")", ";", " ", "p", "r", "i", "n", "t", "(", "a", ")", ";", " ", "p",
      "r", "i", "n", "t", "(", "b", ")">>

\* print(1); print(x); print(2)
UndefinedSymbol ==
    <<"p", "r", "i", "n", "t", "(", "1", ")", ";", " ", "p", "r", "i", "n", "t", "(", "x",
      ")", ";", " ", "p", "r", "i", "n", "t", "(", "2", ")">>

\* print(1); print(1 == "a"); print(2)
CrossType ==
    <<"p", "r", "i", "n", "t", "(", "1", ")", ";", " ", "p", "r", "i", "n", "t", "(", "1",
      " ", "=", "=", " ", "\"", "a", "\"", ")", ";", " ", "p", "r", "i", "n", "t", "(",
      "2", ")">>

\* print(1); print(first(1)); print(2)
NotATuple ==
    <<"p", "r", "i", "n", "t", "(", "1", ")", ";", " ", "p", "r", "i", "n", "t", "(", "f",
      "i", "r", "s", "t", "(", "1", ")", ")", ";", " ", "p", "r", "i", "n", "t", "(", "2",
      ")">>

\* print(1); else print(2)
Unexpected ==
    <<"p", "r", "i", "n", "t", "(", "1", ")", ";", " ", "e", "l", "s", "e", " ", "p", "r",
      "i", "n", "t", "(", "2", ")">>

\* let f = fn (n) => { f(n + 1) }; print(1); print(f(0)); print(2)
Overflow ==
    <<"l", "e", "t", " ", "f", " ", "=", " ", "f", "n", " ", "(", "n", ")", " ", "=", ">",
      " ", "{", " ", "f", "(", "n", " ", "+", " ", "1", ")", " ", "}", ";", " ", "p", "r",
      "i", "n", "t", "(", "1", ")", ";", " ", "p", "r", "i", "n", "t", "(", "f", "(", "0",
      ")", ")", ";", " ", "p", "r", "i", "n", "t", "(", "2", ")">>

\* let a = 6; let b = 0; print(a / 2); print(a / b); print(2)
Division ==
    <<"l", "e", "t", " ", "a", " ", "=", " ", "6", ";", " ", "l", "e", "t", " ", "b", " ",
      "=", " ", "0", ";", " ", "p", "r", "i", "n", "t", "(", "a", " ", "/", " ", "2", ")",
      ";", " ", "p", "r", "i", "n", "t", "(", "a", " ", "/", " ", "b", ")", ";", " ", "p",
      "r", "i", "n", "t", "(", "2", ")">>

\* print((1, 2) == (1, 2)); print((1, 2) != (1, 3)); print("a" != "a"); print(true == false || 1 != 1 && true)
Equality ==
    <<"p", "r", "i", "n", "t", "(", "(", "1", ",", " ", "2", ")", " ", "=", "=", " ", "(",
      "1", ",", " ", "2", ")", ")", ";", " ", "p", "r", "i", "n", "t", "(", "(", "1", ",",
      " ", "2", ")", " ", "!", "=", " ", "(", "1", ",", " ", "3", ")", ")", ";", " ", "p",
      "r", "i", "n", "t", "(", "\"", "a", "\"", " ", "!", "=", " ", "\"", "a", "\"", ")",
      ";", " ", "p", "r", "i", "n", "t", "(", "t", "r", "u", "e", " ", "=", "=", " ", "f",
      "a", "l", "s", "e", " ", "|", "|", " ", "1", " ", "!", "=", " ", "1", " ", "&", "&",
      " ", "t", "r", "u", "e", ")">>

\* print("a" < 1); print(true - 1); print("b" * 2)
NonInteger ==
    <<"p", "r", "i", "n", "t", "(", "\"", "a", "\"", " ", "<", " ", "1", ")", ";", " ",
      "p", "r", "i", "n", "t", "(", "t", "r", "u", "e", " ", "-", " ", "1", ")", ";", " ",
      "p", "r", "i", "n", "t", "(", "\"", "b", "\"", " ", "*", " ", "2", ")">>

\* let inc = fn (n) => n + 1; print(inc(1) % 2); cowsay(moo)
Arrow ==
    <<"l", "e", "t", " ", "i", "n", "c", " ", "=", " ", "f", "n", " ", "(", "n", ")", " ",
      "=", ">", " ", "n", " ", "+", " ", "1", ";", " ", "p", "r", "i", "n", "t", "(", "i",
      "n", "c", "(", "1", ")", " ", "%", " ", "2", ")", ";", " ", "c", "o", "w", "s", "a",
      "y", "(", "m", "o", "o", ")">>

\* let s = "abcdefgh"; let s = s + s + s + s; let s = s + s + s + s; let s = s + s + s + s; let t = s + s; print(1)
LongString ==
    <<"l", "e", "t", " ", "s", " ", "=", " ", "\"", "a", "b", "c", "d", "e", "f", "g", "h",
      "\"", ";", " ", "l", "e", "t", " ", "s", " ", "=", " ", "s", " ", "+", " ", "s", " ",
      "+", " ", "s", " ", "+", " ", "s", ";", " ", "l", "e", "t", " ", "s", " ", "=", " ",
      "s", " ", "+", " ", "s", " ", "+", " ", "s", " ", "+", " ", "s", ";", " ", "l", "e",
      "t", " ", "s", " ", "=", " ", "s", " ", "+", " ", "s", " ", "+", " ", "s", " ", "+",
      " ", "s", ";", " ", "l", "e", "t", " ", "t", " ", "=", " ", "s", " ", "+", " ", "s",
      ";", " ", "p", "r", "i", "n", "t", "(", "1", ")">>

\* print(false && print(true)); print(true || print(false))
ShortCircuit ==
    <<"p", "r", "i", "n", "t", "(", "f", "a", "l", "s", "e", " ", "&", "&", " ", "p", "r",
      "i", "n", "t", "(", "t", "r", "u", "e", ")", ")", ";", " ", "p", "r", "i", "n", "t",
      "(", "t", "r", "u", "e", " ", "|", "|", " ", "p", "r", "i", "n", "t", "(", "f", "a",
      "l", "s", "e", ")", ")">>

\* let f = fn (n) => { print(n + 1) }; let a = f(1); print(a); print("Hello, World!")
PrintLast ==
    <<"l", "e", "t", " ", "f", " ", "=", " ", "f", "n", " ", "(", "n", ")", " ", "=", ">",
      " ", "{", " ", "p", "r", "i", "n", "t", "(", "n", " ", "+", " ", "1", ")", " ", "}",
      ";", " ", "l", "e", "t", " ", "a", " ", "=", " ", "f", "(", "1", ")", ";", " ", "p",
      "r", "i", "n", "t", "(", "a", ")", ";", " ", "p", "r", "i", "n", "t", "(", "\"", "H",
      "e", "l", "l", "o", ",", " ", "W", "o", "r", "l", "d", "!", "\"", ")">>

\* print(1 + 2); print(3 + "a"); print("a" + 4); print("a" + "b"); print("a" + true)
Concat ==
    <<"p", "r", "i", "n", "t", "(", "1", " ", "+", " ", "2", ")", ";", " ", "p", "r", "i",
      "n", "t", "(", "3", " ", "+", " ", "\"", "a", "\"", ")", ";", " ", "p", "r", "i",
      "n", "t", "(", "\"", "a", "\"", " ", "+", " ", "4", ")", ";", " ", "p", "r", "i",
      "n", "t", "(", "\"", "a", "\"", " ", "+", " ", "\"", "b", "\"", ")", ";", " ", "p",
      "r", "i", "n", "t", "(", "\"", "a", "\"", " ", "+", " ", "t", "r", "u", "e", ")">>

\* print("Hello, World!");
HelloWorldTest ==
    <<"p", "r", "i", "n", "t", "(", "\"", "H", "e", "l", "l", "o", ",", " ", "W", "o", "r",
      "l", "d", "!", "\"", ")", ";">>

\* let c = 0; let f = fn (n) => { c = c + n }; let a = f(1); f(1)
CounterTest ==
    <<"l", "e", "t", " ", "c", " ", "=", " ", "0", ";", " ", "l", "e", "t", " ", "f", " ",
      "=", " ", "f", "n", " ", "(", "n", ")", " ", "=", ">", " ", "{", " ", "c", " ", "=",
      " ", "c", " ", "+", " ", "n", " ", "}", ";", " ", "l", "e", "t", " ", "a", " ", "=",
      " ", "f", "(", "1", ")", ";", " ", "f", "(", "1", ")">>

\* let f = fn (a, b, c, d, e, g, h) => { a + h }; print(f(1, 2, 3, 4, 5, 6, 7))
SevenParameters ==
    <<"l", "e", "t", " ", "f", " ", "=", " ", "f", "n", " ", "(", "a", ",", " ", "b", ",",
      " ", "c", ",", " ", "d", ",", " ", "e", ",", " ", "g", ",", " ", "h", ")", " ", "=",
      ">", " ", "{", " ", "a", " ", "+", " ", "h", " ", "}", ";", " ", "p", "r", "i", "n",
      "t", "(", "f", "(", "1", ",", " ", "2", ",", " ", "3", ",", " ", "4", ",", " ", "5",
      ",", " ", "6", ",", " ", "7", ")", ")">>

\* print(0); let c = 0; let f = fn (n) => { c = c + n }; let a = f(1); print(f(1))
PrintThenCall ==
    <<"p", "r", "i", "n", "t", "(", "0", ")", ";", " ", "l", "e", "t", " ", "c", " ", "=",
      " ", "0", ";", " ", "l", "e", "t", " ", "f", " ", "=", " ", "f", "n", " ", "(", "n",
      ")", " ", "=", ">", " ", "{", " ", "c", " ", "=", " ", "c", " ", "+", " ", "n", " ",
      "}", ";", " ", "l", "e", "t", " ", "a", " ", "=", " ", "f", "(", "1", ")", ";", " ",
      "p", "r", "i", "n", "t", "(", "f", "(", "1", ")", ")">>

\* let c = 0; let f = fn (n) => { c = c + n }; print(f(1)); let f = fn (n) => { c = c + n }; let a = f(1); print(f(1))
Redefined ==
    <<"l", "e", "t", " ", "c", " ", "=", " ", "0", ";", " ", "l", "e", "t", " ", "f", " ",
      "=", " ", "f", "n", " ", "(", "n", ")", " ", "=", ">", " ", "{", " ", "c", " ", "=",
      " ", "c", " ", "+", " ", "n", " ", "}", ";", " ", "p", "r", "i", "n", "t", "(", "f",
      "(", "1", ")", ")", ";", " ", "l", "e", "t", " ", "f", " ", "=", " ", "f", "n", " ",
      "(", "n", ")", " ", "=", ">", " ", "{", " ", "c", " ", "=", " ", "c", " ", "+", " ",
      "n", " ", "}", ";", " ", "l", "e", "t", " ", "a", " ", "=", " ", "f", "(", "1", ")",
      ";", " ", "p", "r", "i", "n", "t", "(", "f", "(", "1", ")", ")">>

\* let f = fn (s) => { s }; let a = f("a"); let b = f("a"); f(1)
StringArgument ==
    <<"l", "e", "t", " ", "f", " ", "=", " ", "f", "n", " ", "(", "s", ")", " ", "=", ">",
      " ", "{", " ", "s", " ", "}", ";", " ", "l", "e", "t", " ", "a", " ", "=", " ", "f",
      "(", "\"", "a", "\"", ")", ";", " ", "l", "e", "t", " ", "b", " ", "=", " ", "f",
      "(", "\"", "a", "\"", ")", ";", " ", "f", "(", "1", ")">>

\* let f = fn (a, b) => { a + b }; let x = f(0, 31); let y = f(1, 0); f(1, 0)
Collision ==
    <<"l", "e", "t", " ", "f", " ", "=", " ", "f", "n", " ", "(", "a", ",", " ", "b", ")",
      " ", "=", ">", " ", "{", " ", "a", " ", "+", " ", "b", " ", "}", ";", " ", "l", "e",
      "t", " ", "x", " ", "=", " ", "f", "(", "0", ",", " ", "3", "1", ")", ";", " ", "l",
      "e", "t", " ", "y", " ", "=", " ", "f", "(", "1", ",", " ", "0", ")", ";", " ", "f",
      "(", "1", ",", " ", "0", ")">>

\* let f = fn (n) => { if (n == 0) { print(1) } print(2) }; let a = f(0); f(0)
IfAgain ==
    <<"l", "e", "t", " ", "f", " ", "=", " ", "f", "n", " ", "(", "n", ")", " ", "=", ">",
      " ", "{", " ", "i", "f", " ", "(", "n", " ", "=", "=", " ", "0", ")", " ", "{", " ",
      "p", "r", "i", "n", "t", "(", "1", ")", " ", "}", " ", "p", "r", "i", "n", "t", "(",
      "2", ")", " ", "}", ";", " ", "l", "e", "t", " ", "a", " ", "=", " ", "f", "(", "0",
      ")", ";", " ", "f", "(", "0", ")">>

\* let f = fn (n) => { if (n == 0) { print(10); 1 } else { print(20); 2 } }; print(f(0)); print(f(1)); print(f(0)); print(f(1))
IfBranches ==
    <<"l", "e", "t", " ", "f", " ", "=", " ", "f", "n", " ", "(", "n", ")", " ", "=", ">",
      " ", "{", " ", "i", "f", " ", "(", "n", " ", "=", "=", " ", "0", ")", " ", "{", " ",
      "p", "r", "i", "n", "t", "(", "1", "0", ")", ";", " ", "1", " ", "}", " ", "e", "l",
      "s", "e", " ", "{", " ", "p", "r", "i", "n", "t", "(", "2", "0", ")", ";", " ", "2",
      " ", "}", " ", "}", ";", " ", "p", "r", "i", "n", "t", "(", "f", "(", "0", ")", ")",
      ";", " ", "p", "r", "i", "n", "t", "(", "f", "(", "1", ")", ")", ";", " ", "p", "r",
      "i", "n", "t", "(", "f", "(", "0", ")", ")", ";", " ", "p", "r", "i", "n", "t", "(",
      "f", "(", "1", ")", ")">>

\* let x = 5; let y = if (x == 4) { let x = 6; print(x) }; print(y); print(x)
IfAlone ==
    <<"l", "e", "t", " ", "x", " ", "=", " ", "5", ";", " ", "l", "e", "t", " ", "y", " ",
      "=", " ", "i", "f", " ", "(", "x", " ", "=", "=", " ", "4", ")", " ", "{", " ", "l",
      "e", "t", " ", "x", " ", "=", " ", "6", ";", " ", "p", "r", "i", "n", "t", "(", "x",
      ")", " ", "}", ";", " ", "p", "r", "i", "n", "t", "(", "y", ")", ";", " ", "p", "r",
      "i", "n", "t", "(", "x", ")">>

\* let f = fn (a) => { let t = a + 6; 0 }; let g = fn (b) => { t }; let x = f(1); print(g(2))
StaleFrame ==
    <<"l", "e", "t", " ", "f", " ", "=", " ", "f", "n", " ", "(", "a", ")", " ", "=", ">",
      " ", "{", " ", "l", "e", "t", " ", "t", " ", "=", " ", "a", " ", "+", " ", "6", ";",
      " ", "0", " ", "}", ";", " ", "l", "e", "t", " ", "g", " ", "=", " ", "f", "n", " ",
      "(", "b", ")", " ", "=", ">", " ", "{", " ", "t", " ", "}", ";", " ", "l", "e", "t",
      " ", "x", " ", "=", " ", "f", "(", "1", ")", ";", " ", "p", "r", "i", "n", "t", "(",
      "g", "(", "2", ")", ")">>

\* let mk = fn (x) => { let add = fn (y) => { x + y }; add }; let a = mk(1); print(a(10)); let b = mk(2); print(b(20)); print(a(10))
TwoClosures ==
    <<"l", "e", "t", " ", "m", "k", " ", "=", " ", "f", "n", " ", "(", "x", ")", " ", "=",
      ">", " ", "{", " ", "l", "e", "t", " ", "a", "d", "d", " ", "=", " ", "f", "n", " ",
      "(", "y", ")", " ", "=", ">", " ", "{", " ", "x", " ", "+", " ", "y", " ", "}", ";",
      " ", "a", "d", "d", " ", "}", ";", " ", "l", "e", "t", " ", "a", " ", "=", " ", "m",
      "k", "(", "1", ")", ";", " ", "p", "r", "i", "n", "t", "(", "a", "(", "1", "0", ")",
      ")", ";", " ", "l", "e", "t", " ", "b", " ", "=", " ", "m", "k", "(", "2", ")", ";",
      " ", "p", "r", "i", "n", "t", "(", "b", "(", "2", "0", ")", ")", ";", " ", "p", "r",
      "i", "n", "t", "(", "a", "(", "1", "0", ")", ")">>

\* let a = "x"; let b = "y"; let b = "y"; let b = "y"; let b = "y"; let b = "y"; let b = "y"; let b = "y"; let b = "y"; let b = "y"; let b = "y"; let b = "y"; print(a)
PoolWrap ==
    <<"l", "e", "t", " ", "a", " ", "=", " ", "\"", "x", "\"", ";", " ", "l", "e", "t",
      " ", "b", " ", "=", " ", "\"", "y", "\"", ";", " ", "l", "e", "t", " ", "b", " ",
      "=", " ", "\"", "y", "\"", ";", " ", "l", "e", "t", " ", "b", " ", "=", " ", "\"",
      "y", "\"", ";", " ", "l", "e", "t", " ", "b", " ", "=", " ", "\"", "y", "\"", ";",
      " ", "l", "e", "t", " ", "b", " ", "=", " ", "\"", "y", "\"", ";", " ", "l", "e",
      "t", " ", "b", " ", "=", " ", "\"", "y", "\"", ";", " ", "l", "e", "t", " ", "b",
      " ", "=", " ", "\"", "y", "\"", ";", " ", "l", "e", "t", " ", "b", " ", "=", " ",
      "\"", "y", "\"", ";", " ", "l", "e", "t", " ", "b", " ", "=", " ", "\"", "y", "\"",
      ";", " ", "l", "e", "t", " ", "b", " ", "=", " ", "\"", "y", "\"", ";", " ", "l",
      "e", "t", " ", "b", " ", "=", " ", "\"", "y", "\"", ";", " ", "p", "r", "i", "n",
      "t", "(", "a", ")">>

\* let a=5; print(a)
AssignAdjacent ==
    <<"l", "e", "t", " ", "a", "=", "5", ";", " ", "p", "r", "i", "n", "t", "(", "a", ")">>

\* let x = 1; print(x==x)
EqAdjacent ==
    <<"l", "e", "t", " ", "x", " ", "=", " ", "1", ";", " ", "p", "r", "i", "n", "t", "(",
      "x", "=", "=", "x", ")">>

\* let x = 1; print(x!=x)
NeqAdjacent ==
    <<"l", "e", "t", " ", "x", " ", "=", " ", "1", ";", " ", "p", "r", "i", "n", "t", "(",
      "x", "!", "=", "x", ")">>

\* let n = 1; print(n<2)
LtAdjacent ==
    <<"l", "e", "t", " ", "n", " ", "=", " ", "1", ";", " ", "p", "r", "i", "n", "t", "(",
      "n", "<", "2", ")">>

\* let n = 1; print(n<=2)
LteAdjacent ==
    <<"l", "e", "t", " ", "n", " ", "=", " ", "1", ";", " ", "p", "r", "i", "n", "t", "(",
      "n", "<", "=", "2", ")">>

\* let n = 1; print(n>2)
GtAdjacent ==
    <<"l", "e", "t", " ", "n", " ", "=", " ", "1", ";", " ", "p", "r", "i", "n", "t", "(",
      "n", ">", "2", ")">>

\* let n = 1; print(n>=2)
GteAdjacent ==
    <<"l", "e", "t", " ", "n", " ", "=", " ", "1", ";", " ", "p", "r", "i", "n", "t", "(",
      "n", ">", "=", "2", ")">>

\* let a = true; print(a&&a)
AndAdjacent ==
    <<"l", "e", "t", " ", "a", " ", "=", " ", "t", "r", "u", "e", ";", " ", "p", "r", "i",
      "n", "t", "(", "a", "&", "&", "a", ")">>

\* let a = true; print(a||a)
OrAdjacent ==
    <<"l", "e", "t", " ", "a", " ", "=", " ", "t", "r", "u", "e", ";", " ", "p", "r", "i",
      "n", "t", "(", "a", "|", "|", "a", ")">>

\* let f = fn (n)=>{ n }; print(f(1))
ArrowAdjacent ==
    <<"l", "e", "t", " ", "f", " ", "=", " ", "f", "n", " ", "(", "n", ")", "=", ">", "{",
      " ", "n", " ", "}", ";", " ", "p", "r", "i", "n", "t", "(", "f", "(", "1", ")", ")">>

\* print(1); // c
LineAtEndComment ==
    <<"p", "r", "i", "n", "t", "(", "1", ")", ";", " ", "/", "/", " ", "c">>

\* print(1); // c\nprint(2)
LineBetweenComment ==
    <<"p", "r", "i", "n", "t", "(", "1", ")", ";", " ", "/", "/", " ", "c", "\n", "p", "r",
      "i", "n", "t", "(", "2", ")">>

\* print( /* c */ 1)
BlockBetweenComment ==
    <<"p", "r", "i", "n", "t", "(", " ", "/", "*", " ", "c", " ", "*", "/", " ", "1", ")">>

\* /* c */print(1)
BlockBeforeComment ==
    <<"/", "*", " ", "c", " ", "*", "/", "p", "r", "i", "n", "t", "(", "1", ")">>

\* print(1)//c
LineAfterTokenComment ==
    <<"p", "r", "i", "n", "t", "(", "1", ")", "/", "/", "c">>

\* print(1/* c */)
BlockAfterTokenComment ==
    <<"p", "r", "i", "n", "t", "(", "1", "/", "*", " ", "c", " ", "*", "/", ")">>

\* let a = 5; print(a)
AssignSpaced ==
    <<"l", "e", "t", " ", "a", " ", "=", " ", "5", ";", " ", "p", "r", "i", "n", "t", "(",
      "a", ")">>

\* let x = 1; print(x == x)
EqSpaced ==
    <<"l", "e", "t", " ", "x", " ", "=", " ", "1", ";", " ", "p", "r", "i", "n", "t", "(",
      "x", " ", "=", "=", " ", "x", ")">>

\* let x = 1; print(x != x)
NeqSpaced ==
    <<"l", "e", "t", " ", "x", " ", "=", " ", "1", ";", " ", "p", "r", "i", "n", "t", "(",
      "x", " ", "!", "=", " ", "x", ")">>

\* let n = 1; print(n < 2)
LtSpaced ==
    <<"l", "e", "t", " ", "n", " ", "=", " ", "1", ";", " ", "p", "r", "i", "n", "t", "(",
      "n", " ", "<", " ", "2", ")">>

\* let n = 1; print(n <= 2)
LteSpaced ==
    <<"l", "e", "t", " ", "n", " ", "=", " ", "1", ";", " ", "p", "r", "i", "n", "t", "(",
      "n", " ", "<", "=", " ", "2", ")">>

\* let n = 1; print(n > 2)
GtSpaced ==
    <<"l", "e", "t", " ", "n", " ", "=", " ", "1", ";", " ", "p", "r", "i", "n", "t", "(",
      "n", " ", ">", " ", "2", ")">>

\* let n = 1; print(n >= 2)
GteSpaced ==
    <<"l", "e", "t", " ", "n", " ", "=", " ", "1", ";", " ", "p", "r", "i", "n", "t", "(",
      "n", " ", ">", "=", " ", "2", ")">>

\* let a = true; print(a && a)
AndSpaced ==
    <<"l", "e", "t", " ", "a", " ", "=", " ", "t", "r", "u", "e", ";", " ", "p", "r", "i",
      "n", "t", "(", "a", " ", "&", "&", " ", "a", ")">>

\* let a = true; print(a || a)
OrSpaced ==
    <<"l", "e", "t", " ", "a", " ", "=", " ", "t", "r", "u", "e", ";", " ", "p", "r", "i",
      "n", "t", "(", "a", " ", "|", "|", " ", "a", ")">>

\* let f = fn (n) => { n }; print(f(1))
ArrowSpaced ==
    <<"l", "e", "t", " ", "f", " ", "=", " ", "f", "n", " ", "(", "n", ")", " ", "=", ">",
      " ", "{", " ", "n", " ", "}", ";", " ", "p", "r", "i", "n", "t", "(", "f", "(", "1",
      ")", ")">>

\* print(1);  
LineAtEndBlanked ==
    <<"p", "r", "i", "n", "t", "(", "1", ")", ";", " ", " ">>

\* print(1);  \nprint(2)
LineBetweenBlanked ==
    <<"p", "r", "i", "n", "t", "(", "1", ")", ";", " ", " ", "\n", "p", "r", "i", "n", "t",
      "(", "2", ")">>

\* print(   1)
BlockBetweenBlanked ==
    <<"p", "r", "i", "n", "t", "(", " ", " ", " ", "1", ")">>

\*  print(1)
BlockBeforeBlanked ==
    <<" ", "p", "r", "i", "n", "t", "(", "1", ")">>

\* print(1) 
LineAfterTokenBlanked ==
    <<"p", "r", "i", "n", "t", "(", "1", ")", " ">>

\* print(1 )
BlockAfterTokenBlanked ==
    <<"p", "r", "i", "n", "t", "(", "1", " ", ")">>

\* the scripts with an operator written against its operands, and the same
\* scripts with the operator between spaces
Adjacent ==
    <<AssignAdjacent, EqAdjacent, NeqAdjacent, LtAdjacent, LteAdjacent,
      GtAdjacent, GteAdjacent, AndAdjacent, OrAdjacent, ArrowAdjacent>>

Spaced ==
    <<AssignSpaced, EqSpaced, NeqSpaced, LtSpaced, LteSpaced,
      GtSpaced, GteSpaced, AndSpaced, OrSpaced, ArrowSpaced>>

\* scripts with a comment, and the same scripts with the comment replaced by
\* one space
Commented ==
    <<LineAtEndComment, LineBetweenComment, BlockBetweenComment,
      BlockBeforeComment, LineAfterTokenComment, BlockAfterTokenComment>>

Blanked ==
    <<LineAtEndBlanked, LineBetweenBlanked, BlockBetweenBlanked,
      BlockBeforeBlanked, LineAfterTokenBlanked, BlockAfterTokenBlanked>>

Programs ==
    {Fib, Mutual, Inner, Impure, ClosureAtTopLevel, ClosureInFrame,
     NestedTuple, Tuples, Assign, UndefinedSymbol, CrossType, NotATuple,
     Unexpected, Overflow, Division, Equality, NonInteger, Arrow,
     LongString, ShortCircuit, PrintLast, Concat, HelloWorldTest, CounterTest,
     SevenParameters, PrintThenCall, Redefined, StringArgument, Collision, IfAgain,
     IfBranches, IfAlone, StaleFrame, TwoClosures, PoolWrap, AssignAdjacent,
     EqAdjacent, NeqAdjacent, LtAdjacent, LteAdjacent, GtAdjacent, GteAdjacent,
     AndAdjacent, OrAdjacent, ArrowAdjacent, LineAtEndComment, LineBetweenComment, BlockBetweenComment,
     BlockBeforeComment, LineAfterTokenComment, BlockAfterTokenComment}

(***************************************************************************)
(* The state: the interpreter's static storage, its output streams and its *)
(* own call stack, once for each build of the program.  The shipped build  *)
(* has RINHA_CONFIG_CACHE_ENABLE true; in the reference build the memo     *)
(* cache is compiled out.  Both are given the same script.                 *)
(***************************************************************************)
Builds == {"reference", "shipped"}

RINHA_CONFIG_CACHE_ENABLE(m) == m = "shipped"

\* what an indeterminate number member may read as
Indeterminate == {0, 7}

VARIABLES script, code_ptr, tokens, rinha_tok_count, symref, string_pool, pool_index,
          pc, rinha_sp, stack_ctx, stacks, calls, cache_enabled,
          jmp_pc1, jmp_pc2, on_tests, stdout, stderr, status,
          ub, k, v, response

vars ==
    <<script, code_ptr, tokens, rinha_tok_count, symref, string_pool, pool_index,
      pc, rinha_sp, stack_ctx, stacks, calls, cache_enabled,
      jmp_pc1, jmp_pc2, on_tests, stdout, stderr, status,
      ub, k, v, response>>

\* the process of build m, with what undefined behaviour does in this step
Machine(m, trap, number) ==
    [src |-> script, code_ptr |-> code_ptr[m], tokens |-> tokens[m],
     rinha_tok_count |-> rinha_tok_count[m], symref |-> symref[m],
     string_pool |-> string_pool[m], pool_index |-> pool_index[m], pc |-> pc[m],
     rinha_sp |-> rinha_sp[m], stack_ctx |-> stack_ctx[m], stacks |-> stacks[m],
     calls |-> calls[m], cache_enabled |-> cache_enabled[m], jmp_pc1 |-> jmp_pc1[m],
     jmp_pc2 |-> jmp_pc2[m], on_tests |-> on_tests[m], stdout |-> stdout[m],
     stderr |-> stderr[m], status |-> status[m], ub |-> ub[m], k |-> k[m], v |-> v[m],
     response |-> response[m], ub_trap |-> trap, ub_number |-> number,
     RINHA_CONFIG_CACHE_ENABLE |-> RINHA_CONFIG_CACHE_ENABLE(m)]

Store(m, t) ==
    /\ code_ptr' = [code_ptr EXCEPT ![m] = t.code_ptr]
    /\ tokens' = [tokens EXCEPT ![m] = t.tokens]
    /\ rinha_tok_count' = [rinha_tok_count EXCEPT ![m] = t.rinha_tok_count]
    /\ symref' = [symref EXCEPT ![m] = t.symref]
    /\ string_pool' = [string_pool EXCEPT ![m] = t.string_pool]
    /\ pool_index' = [pool_index EXCEPT ![m] = t.pool_index]
    /\ pc' = [pc EXCEPT ![m] = t.pc]
    /\ rinha_sp' = [rinha_sp EXCEPT ![m] = t.rinha_sp]
    /\ stack_ctx' = [stack_ctx EXCEPT ![m] = t.stack_ctx]
    /\ stacks' = [stacks EXCEPT ![m] = t.stacks]
    /\ calls' = [calls EXCEPT ![m] = t.calls]
    /\ cache_enabled' = [cache_enabled EXCEPT ![m] = t.cache_enabled]
    /\ jmp_pc1' = [jmp_pc1 EXCEPT ![m] = t.jmp_pc1]
    /\ jmp_pc2' = [jmp_pc2 EXCEPT ![m] = t.jmp_pc2]
    /\ on_tests' = [on_tests EXCEPT ![m] = t.on_tests]
    /\ stdout' = [stdout EXCEPT ![m] = t.stdout]
    /\ stderr' = [stderr EXCEPT ![m] = t.stderr]
    /\ status' = [status EXCEPT ![m] = t.status]
    /\ ub' = [ub EXCEPT ![m] = t.ub]
    /\ k' = [k EXCEPT ![m] = t.k]
    /\ v' = [v EXCEPT ![m] = t.v]
    /\ response' = [response EXCEPT ![m] = t.response]
    /\ UNCHANGED script

Init ==
    /\ script \in Programs
    /\ code_ptr = [m \in Builds |-> 1]
    /\ tokens = [m \in Builds |-> <<>>]
    /\ rinha_tok_count = [m \in Builds |-> 0]
    /\ symref = [m \in Builds |-> 0]
    /\ string_pool = [m \in Builds |-> <<>>]
    /\ pool_index = [m \in Builds |-> 0]
    /\ pc = [m \in Builds |-> 0]
    /\ rinha_sp = [m \in Builds |-> 0]
    /\ stack_ctx = [m \in Builds |-> NULL]
    /\ stacks = [m \in Builds |-> <<>>]
    /\ calls = [m \in Builds |-> <<>>]
    /\ cache_enabled = [m \in Builds |-> RINHA_CONFIG_CACHE_ENABLE(m)]
    /\ jmp_pc1 = [m \in Builds |-> <<>>]
    /\ jmp_pc2 = [m \in Builds |-> <<>>]
    /\ on_tests = [m \in Builds |-> FALSE]
    /\ stdout = [m \in Builds |-> <<>>]
    /\ stderr = [m \in Builds |-> <<>>]
    /\ status = [m \in Builds |-> "loaded"]
    /\ ub = [m \in Builds |-> <<>>]
    /\ k = [m \in Builds |-> <<>>]
    /\ v = [m \in Builds |-> Undefined]
    /\ response = [m \in Builds |-> Undefined]

(***************************************************************************)
(* The steps.  The two builds are separate processes that share nothing,   *)
(* so the reference build is run to its end before the shipped one starts. *)
(***************************************************************************)
Finished(m) == status[m] \in {"returned", "exited", "killed"}

Scheduled(m) == m = "reference" \/ Finished("reference")

\* the C function whose code runs next in build m
Running(m, function) ==
    /\ Scheduled(m)
    /\ status[m] = "running"
    /\ k[m] # <<>>
    /\ k[m][Len(k[m])].function = function

Top(m) == k[m][Len(k[m])]

\* build m with the top frame taken off its call stack
Popped(m, trap, number) ==
    [Machine(m, trap, number) EXCEPT !.k = SubSeq(@, 1, Len(@) - 1)]

\* tests/test.c runs its TESTs one after the other in one process
Tests == <<HelloWorldTest, CounterTest>>

OnTests == script \in {Tests[i] : i \in DOMAIN Tests}

\* main calls rinha_script_exec(argv[1], code, &response, false); a TEST calls
\* rinha_clear_stack() and rinha_script_exec(name, code, &response, true)
ScriptExec(m) ==
    /\ Scheduled(m)
    /\ status[m] = "loaded"
    /\ Store(m, rinha_script_exec_tokenized(
                    rinha_script_exec(IF OnTests
                                      THEN rinha_clear_stack(Machine(m, FALSE, 0))
                                      ELSE Machine(m, FALSE, 0), OnTests)))

\* run_tests: after a TEST has returned the next one is called, in the same
\* process and so with the static storage as the last TEST left it
run_tests ==
    /\ \A m \in Builds : status[m] = "returned"
    /\ \E i \in 1..(Len(Tests) - 1) :
          /\ script = Tests[i]
          /\ script' = Tests[i + 1]
    /\ status' = [m \in Builds |-> "loaded"]
    /\ UNCHANGED <<code_ptr, tokens, rinha_tok_count, symref, string_pool, pool_index,
                   pc, rinha_sp, stack_ctx, stacks, calls, cache_enabled,
                   jmp_pc1, jmp_pc2, on_tests, stdout, stderr, ub, k, v, response>>

Tokenize(m) ==
    /\ Scheduled(m)
    /\ status[m] = "lexing"
    /\ Store(m, rinha_script_exec_tokenized(rinha_tokenize_(Machine(m, FALSE, 0))))

ScriptReturn(m) ==
    /\ Running(m, "rinha_script_exec")
    /\ Store(m, rinha_script_exec_return(Popped(m, FALSE, 0)))

ExecProgram(m) ==
    /\ Running(m, "rinha_exec_program_")
    /\ Store(m, rinha_exec_program_(Popped(m, FALSE, 0)))

ExecStatement(m) ==
    /\ Running(m, "rinha_exec_statement_")
    /\ \E trap \in BOOLEAN, number \in Indeterminate :
          LET s == Popped(m, trap, number)
              fr == Top(m)
          IN  Store(m, CASE fr.at = "let" -> rinha_exec_statement_let(s, fr)
                         [] fr.at = "paren" -> rinha_exec_statement_paren(s)
                         [] fr.at = "tuple" -> rinha_exec_statement_tuple(s, fr)
                         [] OTHER -> rinha_exec_statement_(s))

ExecBlock(m) ==
    /\ Running(m, "rinha_exec_block_")
    /\ LET s == Popped(m, FALSE, 0)
       IN  Store(m, IF Top(m).at = "loop" THEN rinha_exec_block_loop(s)
                    ELSE rinha_exec_block_(s))

ExecIfStatement(m) ==
    /\ Running(m, "rinha_exec_if_statement_")
    /\ \E trap \in BOOLEAN, number \in Indeterminate :
          LET s == Popped(m, trap, number)
              fr == Top(m)
          IN  Store(m, CASE fr.at = "condition" -> rinha_exec_if_statement_condition(s)
                         [] fr.at = "then" -> rinha_exec_if_statement_then(s)
                         [] fr.at = "jumped" -> rinha_exec_if_statement_jumped(s)
                         [] fr.at = "skipped" -> rinha_exec_if_statement_skipped(s)
                         [] OTHER -> rinha_exec_if_statement_(s))

BlockJump(m) ==
    /\ Running(m, "rinha_block_jump_")
    /\ \E trap \in BOOLEAN, number \in Indeterminate :
          Store(m, rinha_block_jump_loop(Popped(m, trap, number), Top(m)))

ExpressionJump(m) ==
    /\ Running(m, "rinha_expression_jump")
    /\ \E trap \in BOOLEAN, number \in Indeterminate :
          Store(m, rinha_expression_jump_loop(Popped(m, trap, number), Top(m)))

PrepareClosure(m) ==
    /\ Running(m, "rinha_prepare_closure")
    /\ \E trap \in BOOLEAN, number \in Indeterminate :
          LET s == Popped(m, trap, number)
              fr == Top(m)
          IN  Store(m, CASE fr.at = "invoke" -> rinha_prepare_closure_invoke(s, fr)
                         [] fr.at = "store" -> rinha_prepare_closure_store(s, fr)
                         [] fr.at = "end" -> rinha_prepare_closure_end(s, fr)
                         [] OTHER -> rinha_prepare_closure(s, fr))

CallFunction(m) ==
    /\ Running(m, "rinha_call_function_")
    /\ \E trap \in BOOLEAN, number \in Indeterminate :
          LET s == Popped(m, trap, number)
              fr == Top(m)
          IN  Store(m, IF fr.at = "store" THEN rinha_call_function_store(s, fr)
                       ELSE rinha_call_function_(s, fr))

ExecFunction(m) ==
    /\ Running(m, "rinha_exec_function_")
    /\ \E trap \in BOOLEAN, number \in Indeterminate :
          Store(m, rinha_exec_function_return(Popped(m, trap, number), Top(m)))

PrintStatement(m) ==
    /\ Running(m, "rinha_print_statement_")
    /\ Store(m, rinha_print_statement_print(Popped(m, FALSE, 0)))

ExecFirst(m) ==
    /\ Running(m, "rinha_exec_first")
    /\ Store(m, rinha_exec_first_tuple(Popped(m, FALSE, 0)))

ExecSecond(m) ==
    /\ Running(m, "rinha_exec_second")
    /\ Store(m, rinha_exec_second_tuple(Popped(m, FALSE, 0)))

ExecAssign(m) ==
    /\ Running(m, "rinha_exec_assign")
    /\ \E trap \in BOOLEAN, number \in Indeterminate :
          LET s == Popped(m, trap, number)
              fr == Top(m)
          IN  Store(m, CASE fr.at = "assign" -> rinha_exec_assign_assign(s, fr)
                         [] fr.at = "copy" -> rinha_exec_assign_copy(s, fr)
                         [] OTHER -> rinha_exec_assign(s))

ExecLogicalOr(m) ==
    /\ Running(m, "rinha_exec_logical_or_")
    /\ \E trap \in BOOLEAN, number \in Indeterminate :
          LET s == Popped(m, trap, number)
              fr == Top(m)
          IN  Store(m, CASE fr.at = "loop" -> rinha_exec_logical_or_loop(s, fr)
                         [] fr.at = "apply" -> rinha_exec_logical_or_apply(s, fr)
                         [] OTHER -> rinha_exec_logical_or_(s))

ExecLogicalAnd(m) ==
    /\ Running(m, "rinha_exec_logical_and_")
    /\ \E trap \in BOOLEAN, number \in Indeterminate :
          LET s == Popped(m, trap, number)
              fr == Top(m)
          IN  Store(m, CASE fr.at = "loop" -> rinha_exec_logical_and_loop(s, fr)
                         [] fr.at = "apply" -> rinha_exec_logical_and_apply(s, fr)
                         [] OTHER -> rinha_exec_logical_and_(s))

ExecComparison(m) ==
    /\ Running(m, "rinha_exec_comparison_")
    /\ \E trap \in BOOLEAN, number \in Indeterminate :
          LET s == Popped(m, trap, number)
              fr == Top(m)
          IN  Store(m, CASE fr.at = "loop" -> rinha_exec_comparison_loop(s, fr)
                         [] fr.at = "apply" -> rinha_exec_comparison_apply(s, fr)
                         [] OTHER -> rinha_exec_comparison_(s))

ExecCalc(m) ==
    /\ Running(m, "rinha_exec_calc_")
    /\ \E trap \in BOOLEAN, number \in Indeterminate :
          LET s == Popped(m, trap, number)
              fr == Top(m)
          IN  Store(m, CASE fr.at = "loop" -> rinha_exec_calc_loop(s)
                         [] fr.at = "apply" -> rinha_exec_calc_apply(s, fr)
                         [] OTHER -> rinha_exec_calc_(s))

ExecTerm(m) ==
    /\ Running(m, "rinha_exec_term_")
    /\ \E trap \in BOOLEAN, number \in Indeterminate :
          LET s == Popped(m, trap, number)
              fr == Top(m)
          IN  Store(m, CASE fr.at = "loop" -> rinha_exec_term_loop(s)
                         [] fr.at = "apply" -> rinha_exec_term_apply(s, fr)
                         [] OTHER -> rinha_exec_term_(s))

ExecPrimary(m) ==
    /\ Running(m, "rinha_exec_primary_")
    /\ \E trap \in BOOLEAN, number \in Indeterminate :
          LET s == Popped(m, trap, number)
              fr == Top(m)
          IN  Store(m, CASE fr.at = "paren_let" -> rinha_exec_primary_paren_let(s)
                         [] fr.at = "paren" -> rinha_exec_primary_paren(s)
                         [] fr.at = "tuple" -> rinha_exec_primary_tuple(s, fr)
                         [] fr.at = "let" -> rinha_exec_primary_let(s)
                         [] fr.at = "advance" -> rinha_token_advance(s)
                         [] OTHER -> rinha_exec_primary_(s))

Next ==
    \/ run_tests
    \/ \E m \in Builds :
        \/ ScriptExec(m)
        \/ Tokenize(m)
        \/ ScriptReturn(m)
        \/ ExecProgram(m)
        \/ ExecStatement(m)
        \/ ExecBlock(m)
        \/ ExecIfStatement(m)
        \/ BlockJump(m)
        \/ ExpressionJump(m)
        \/ PrepareClosure(m)
        \/ CallFunction(m)
        \/ ExecFunction(m)
        \/ PrintStatement(m)
        \/ ExecFirst(m)
        \/ ExecSecond(m)
        \/ ExecAssign(m)
        \/ ExecLogicalOr(m)
        \/ ExecLogicalAnd(m)
        \/ ExecComparison(m)
        \/ ExecCalc(m)
        \/ ExecTerm(m)
        \/ ExecPrimary(m)

Spec == Init /\ [][Next]_vars


(***************************************************************************)
(* The properties.  A value is what its active member holds: strings by    *)
(* their text, tuples by their two components.                             *)
(***************************************************************************)
Member(pool, x) ==
    [type |-> x.type,
     number |-> IF x.type = "INTEGER" THEN x.number ELSE 0,
     boolean |-> IF x.type = "BOOLEAN" THEN x.boolean ELSE FALSE,
     string |-> IF x.type = "STRING" /\ x.string \in DOMAIN pool THEN pool[x.string] ELSE <<>>,
     function |-> IF x.type = "FUNCTION" THEN x.function ELSE Undefined.function]

ValueOf(pool, x) ==
    IF x.type = "TUPLE"
    THEN [type |-> "TUPLE", first |-> Member(pool, x.tuple[1]), second |-> Member(pool, x.tuple[2])]
    ELSE [type |-> x.type, first |-> Member(pool, x), second |-> Member(pool, x)]

Last(seq) == seq[Len(seq)]

BothReturned == \A m \in Builds : status[m] = "returned" /\ ub[m] = <<>>

\* the scripts whose functions neither print nor write to a variable
PureScripts == {Fib, Mutual, Inner}

\* the scripts that print no indeterminate value
PrintingScripts == {Fib, Impure, Assign, Equality, Tuples, Arrow, ClosureInFrame}

\* Claim C1: a program of pure functions called with integer arguments returns
\* the same value with the memo cache active as it does with the cache off
\* from the start (direct recursion, mutual recursion, repeated calls).
MemoizationEquivalence ==
    (script \in PureScripts /\ BothReturned)
        => ValueOf(string_pool["shipped"], response["shipped"])
           = ValueOf(string_pool["reference"], response["reference"])

\* Claim C2: what print writes with memoization enabled is what it writes with
\* memoization disabled: a cache hit never stands in for a call that prints.
PrintSequenceEquivalence ==
    (script \in PrintingScripts /\ BothReturned) => stdout["shipped"] = stdout["reference"]

\* Claim C3: a closure called after a name of its body was rebound in the
\* creating scope still sees the value the name had when it was created, in a
\* call frame and at top level: both calls of f print the 1 that x was.
LexicalScopeSoundness ==
    \A m \in Builds :
        (script \in {ClosureAtTopLevel, ClosureInFrame} /\ status[m] = "returned")
            => stdout[m] = <<"1", "\n", "1", "\n">>

\* Claim C4: first((a, b)) is a and second((a, b)) is b for values of any
\* type, tuples included: printing a and printing first((a, 3)) write the
\* same text, and the components of (1, "a") come back as 1 and "a".
FirstSecondRoundTrip ==
    \A m \in Builds :
        /\ (script = NestedTuple /\ status[m] = "returned")
              => \E n \in 0..Len(stdout[m]) :
                    stdout[m] = SubSeq(stdout[m], 1, n) \o SubSeq(stdout[m], 1, n)
        /\ (script = Tuples /\ status[m] = "returned")
              => stdout[m] = <<"1", "\n", "a", "\n">>

\* Claim C5: x = e evaluates to the value of e and leaves that value in x: the
\* step of rinha_exec_assign that follows the right-hand side keeps the value
\* in ret and stores it in the slot x resolved to; the chain a = b = 5 leaves 5
\* in a and in b.
AssignmentReturnsItsValue ==
    [][\A m \in Builds :
          /\ (Running(m, "rinha_exec_assign") /\ Top(m).at = "copy")
                => /\ status'[m] = "running"
                   /\ v'[m] = v[m]
                   /\ ValueOf(string_pool'[m],
                              At(stacks'[m][Top(m).frame].mem, Top(m).hash, Undefined))
                      = ValueOf(string_pool[m], v[m])
          /\ (script = Assign /\ status'[m] = "returned")
                => stdout'[m] = <<"5", "\n", "5", "\n", "5", "\n">>]_vars

AssignmentReturnsItsValueWitness ==
    /\ script = Assign
    /\ status["shipped"] = "returned"
    /\ stdout["shipped"] = <<"5", "\n", "5", "\n", "5", "\n">>
    /\ ValueOf(string_pool["shipped"], response["shipped"]).first.number = 5

\* Claim C6: every error is fatal: the step that writes a diagnostic ends the
\* run with the failure status, having written to stdout only the caret line
\* of the diagnostic, and after it nothing is evaluated and nothing printed.
ErrorsAreFatal ==
    [][\A m \in Builds :
          /\ stderr'[m] # stderr[m]
                => /\ status'[m] = "exited"
                   /\ Len(stderr'[m]) = 1
                   /\ stdout'[m] = stdout[m] \o <<"\n", "^", "\n">>
          /\ status[m] = "exited"
                => /\ status'[m] = "exited"
                   /\ stdout'[m] = stdout[m]
                   /\ stderr'[m] = stderr[m]
                   /\ pc'[m] = pc[m]
                   /\ k'[m] = k[m]
                   /\ v'[m] = v[m]
                   /\ stacks'[m] = stacks[m]
                   /\ response'[m] = response[m]]_vars

ErrorsAreFatalWitness ==
    /\ script = UndefinedSymbol
    /\ status["reference"] = "exited"
    /\ status["shipped"] = "exited"
    /\ Last(stderr["shipped"]).msg = "Undefined symbol (Hash: %d) "
    /\ stdout["shipped"] = <<"1", "\n", "\n", "^", "\n">>

\* Claim C7: a / b and a % b with b = 0 end the run in the division-by-zero
\* error state and yield no value.
DivisionByZeroIsFatal ==
    [][\A m \in Builds :
          (/\ Running(m, "rinha_exec_term_")
           /\ Top(m).at = "apply"
           /\ Top(m).type \in {"TOKEN_DIVIDE", "TOKEN_MOD"}
           /\ Top(m).left.type = "INTEGER"
           /\ v[m].type = "INTEGER"
           /\ v[m].number = 0)
              => /\ status'[m] = "exited"
                 /\ Len(stderr'[m]) = Len(stderr[m]) + 1]_vars

\* Claim C8: == and != compare by value: operands of different types end the
\* run with "Comparison of different types"; for operands of one type the
\* result of == is whether the values are the same, and the result of != is
\* its negation.
EqualityByValue ==
    [][\A m \in Builds :
          (/\ Running(m, "rinha_exec_comparison_")
           /\ Top(m).at = "apply"
           /\ Top(m).type \in {"TOKEN_EQ", "TOKEN_NEQ"})
              => LET left == Top(m).left
                     right == v[m]
                     same == ValueOf(string_pool[m], left) = ValueOf(string_pool[m], right)
                     s == Machine(m, FALSE, 0)
                 IN  IF left.type # right.type
                     THEN /\ status'[m] = "exited"
                          /\ Last(stderr'[m]).msg = "Comparison of different types"
                     ELSE /\ status'[m] = "running"
                          /\ v'[m].type = "BOOLEAN"
                          /\ v'[m].boolean = IF Top(m).type = "TOKEN_EQ" THEN same ELSE ~same
                          /\ rinha_cmp_neq(s, left, right).v = ~rinha_cmp_eq(s, left, right).v]_vars

EqualityByValueWitness ==
    /\ script = Equality
    /\ status["shipped"] = "returned"
    /\ stdout["shipped"] = <<"t", "r", "u", "e", "\n", "t", "r", "u", "e", "\n",
                             "f", "a", "l", "s", "e", "\n", "f", "a", "l", "s", "e", "\n">>

\* Claim C9: -, *, /, %, <, <=, > and >= applied to an operand that is not an
\* integer end the run with a fatal error and produce no value.
IntegerOnlyOperators ==
    [][\A m \in Builds :
          (/\ \/ Running(m, "rinha_exec_term_")
              \/ Running(m, "rinha_exec_calc_") /\ Top(m).type = "TOKEN_MINUS"
              \/ /\ Running(m, "rinha_exec_comparison_")
                 /\ Top(m).type \in {"TOKEN_LT", "TOKEN_LTE", "TOKEN_GT", "TOKEN_GTE"}
           /\ Top(m).at = "apply"
           /\ (Top(m).left.type # "INTEGER" \/ v[m].type # "INTEGER"))
              => status'[m] = "exited"]_vars

\* Claim C10: the frame-stack index stays below the stack size; a call made
\* when the next frame index would be outside the frame array ends the run
\* with "Stack overflow!" and no frame is touched.
CallDepthBounded ==
    [][\A m \in Builds :
          /\ rinha_sp'[m] < RINHA_CONFIG_STACK_SIZE
          /\ \A i \in 1..Len(ub'[m]) : ub'[m][i] # "store outside the frame array"
          /\ (/\ Running(m, "rinha_call_function_")
              /\ Top(m).at = ""
              /\ Cur(Machine(m, FALSE, 0)).type = "TOKEN_LPAREN"
              /\ rinha_sp[m] + 1 >= RINHA_CONFIG_STACK_SIZE)
                => /\ status'[m] = "exited"
                   /\ Last(stderr'[m]).msg = "Stack overflow!"
                   /\ stacks'[m] = stacks[m]
                   /\ rinha_sp'[m] = rinha_sp[m]
                   /\ calls'[m] = calls[m]]_vars

CallDepthBoundedWitness ==
    /\ script = Overflow
    /\ status["shipped"] = "exited"
    /\ Last(stderr["shipped"]).msg = "Stack overflow!"
    /\ rinha_sp["shipped"] = RINHA_CONFIG_STACK_SIZE - 1
    /\ stdout["shipped"] = <<"1", "\n", "\n", "^", "\n">>

\* Claim C11: no string produced by a literal, a copy or a concatenation is
\* longer than RINHA_CONFIG_STRING_VALUE_SIZE, and a concatenation whose full
\* result would be longer is truncated without an error and without a write
\* outside a buffer.
StringLengthCap ==
    \A m \in Builds :
        /\ \A i \in DOMAIN string_pool[m] :
              Len(string_pool[m][i]) <= RINHA_CONFIG_STRING_VALUE_SIZE
        /\ \A i \in 1..Len(ub[m]) : ub[m][i] # "sprintf past the end of tmp"
        /\ script = LongString => status[m] \notin {"exited", "killed"}

\* the value an operator level holds after one turn of its loop: in ret when
\* the level returned, in left when another operator follows
Held(m) ==
    IF Len(k'[m]) < Len(k[m]) THEN v'[m] ELSE k'[m][Len(k[m])].left

\* Claim C12: && and || do not short-circuit: at the operator the right
\* operand is entered whatever the left value is, after the left one has been
\* evaluated; the result is the conjunction / disjunction of the two boolean
\* operands; a print in the right operand is executed.
NoShortCircuit ==
    [][\A m \in Builds :
          /\ \A function \in {"rinha_exec_logical_and_", "rinha_exec_logical_or_"} :
                LET and == function = "rinha_exec_logical_and_"
                    left == Top(m).left
                    right == v[m]
                IN  /\ (/\ Running(m, function)
                        /\ Top(m).at = "loop"
                        /\ Cur(Machine(m, FALSE, 0)).type = IF and THEN "TOKEN_AND" ELSE "TOKEN_OR")
                          => /\ Len(k'[m]) = Len(k[m]) + 1
                             /\ k'[m][Len(k[m])].function = function
                             /\ k'[m][Len(k[m])].at = "apply"
                             /\ k'[m][Len(k[m])].left = v[m]
                             /\ k'[m][Len(k'[m])].function =
                                   (IF and THEN "rinha_exec_comparison_"
                                    ELSE "rinha_exec_logical_and_")
                             /\ k'[m][Len(k'[m])].at = ""
                    /\ (/\ Running(m, function)
                        /\ Top(m).at = "apply"
                        /\ left.type = "BOOLEAN"
                        /\ right.type = "BOOLEAN")
                          => /\ Held(m).type = "BOOLEAN"
                             /\ Held(m).boolean = IF and THEN left.boolean /\ right.boolean
                                                  ELSE left.boolean \/ right.boolean
          /\ (script = ShortCircuit /\ status'[m] = "returned")
                => stdout'[m] = <<"t", "r", "u", "e", "\n", "f", "a", "l", "s", "e", "\n",
                                  "f", "a", "l", "s", "e", "\n", "t", "r", "u", "e", "\n">>]_vars

NoShortCircuitWitness ==
    /\ script = ShortCircuit
    /\ status["shipped"] = "returned"
    /\ stdout["shipped"] = <<"t", "r", "u", "e", "\n", "f", "a", "l", "s", "e", "\n",
                             "f", "a", "l", "s", "e", "\n", "t", "r", "u", "e", "\n">>

HelloWorld == <<"H", "e", "l", "l", "o", ",", " ", "W", "o", "r", "l", "d", "!">>

\* Claim C13: print(e) returns the value of e: the step of
\* rinha_print_statement_ that follows the evaluation of e writes e (a run made
\* by the tests writes nothing) and leaves it in ret, type and contents; a body
\* and a program that end in a print have the printed value as their value.
PrintReturnsItsArgument ==
    [][\A m \in Builds :
          /\ (Running(m, "rinha_print_statement_") /\ Top(m).at = "print")
                => /\ status'[m] = "running"
                   /\ v'[m] = v[m]
                   /\ ValueOf(string_pool'[m], v'[m]) = ValueOf(string_pool[m], v[m])
                   /\ ~on_tests[m] => Len(stdout'[m]) > Len(stdout[m])
          /\ (script = PrintLast /\ status'[m] = "returned")
                => /\ stdout'[m] = <<"2", "\n", "2", "\n">> \o HelloWorld \o <<"\n">>
                   /\ response'[m].type = "STRING"
                   /\ ValueOf(string_pool'[m], response'[m]).first.string = HelloWorld]_vars

PrintReturnsItsArgumentWitness ==
    /\ script = PrintLast
    /\ status["shipped"] = "returned"
    /\ stdout["shipped"] = <<"2", "\n", "2", "\n">> \o HelloWorld \o <<"\n">>
    /\ ValueOf(string_pool["shipped"], response["shipped"]).first.string = HelloWorld

\* how + renders an operand: a string as its text, a boolean as true or
\* false, an integer in decimal
Rendering(pool, x) ==
    CASE x.type = "STRING" -> Member(pool, x).string
      [] x.type = "BOOLEAN" ->
            IF x.boolean THEN <<"t", "r", "u", "e">> ELSE <<"f", "a", "l", "s", "e">>
      [] OTHER -> Decimal(x.number)

\* Claim C14: + on two integers is their sum; when either operand is not an
\* integer the result is the string made of the renderings of the operands,
\* left then right.
PlusAddsOrConcatenates ==
    [][\A m \in Builds :
          (/\ Running(m, "rinha_exec_calc_")
           /\ Top(m).at = "apply"
           /\ Top(m).type = "TOKEN_PLUS"
           /\ Top(m).left.type \in {"INTEGER", "STRING", "BOOLEAN"}
           /\ v[m].type \in {"INTEGER", "STRING", "BOOLEAN"})
              => IF Top(m).left.type = "INTEGER" /\ v[m].type = "INTEGER"
                 THEN /\ Held(m).type = "INTEGER"
                      /\ Held(m).number = Top(m).left.number + v[m].number
                 ELSE /\ Held(m).type = "STRING"
                      /\ Member(string_pool'[m], Held(m)).string
                         = Rendering(string_pool[m], Top(m).left)
                           \o Rendering(string_pool[m], v[m])]_vars

\* Claim C15: memo caches do not survive a run.  When rinha_script_exec is
\* entered, in the first run of the process or in a later one, no record of
\* calls[] holds an occupied cache entry, so that nothing stored by an earlier
\* run can be a hit, and the global cache_enabled flag has the value it is
\* built with (true in the shipped build).
CachesDoNotSurviveARun ==
    \A m \in Builds :
        status[m] = "lexing" =>
            /\ \A f \in DOMAIN calls[m] :
                   \A h \in DOMAIN calls[m][f].cache : ~calls[m][f].cache[h].cached
            /\ cache_enabled[m] = RINHA_CONFIG_CACHE_ENABLE(m)

OutOfBounds ==
    {"args[] indexed outside the array", "calls[] indexed outside the array",
     "store outside the frame array"}

\* Claim C16: the fixed budgets fail loudly.  No frame slot, record of calls[]
\* or element of the args array of a call is ever accessed outside its bounds,
\* and a run of the script whose function has seven parameters, one more than
\* RINHA_CONFIG_FUNCTION_ARGS_SIZE, does not return: it ends in rinha_error.
BudgetsFailLoudly ==
    \A m \in Builds :
        /\ \A i \in 1..Len(ub[m]) : ub[m][i] \notin OutOfBounds
        /\ script = SevenParameters => status[m] # "returned"

\* Claim C17: within a run the global cache_enabled flag is one-way.  A step
\* of a running script that starts with the flag false, a step that enters a
\* call from the top level included, ends with the flag false.
GlobalFlagIsOneWay ==
    [][\A m \in Builds :
          (status[m] = "running" /\ ~cache_enabled[m]) => ~cache_enabled'[m]]_vars

\* Claim C18: the cache health of a function record is monotonic within a run.
\* In every step of a running script, a record of calls[] whose cache_enabled
\* is false keeps it false and a record whose cache_checked is true keeps it
\* true, whether or not the step evaluates the function literal of the record
\* again.
CacheHealthIsMonotonic ==
    [][\A m \in Builds :
          (status[m] = "running" /\ status'[m] = "running") =>
              \A f \in (DOMAIN calls[m]) \cap (DOMAIN calls'[m]) :
                  calls[m][f].pc # 0 =>
                      /\ ~calls[m][f].cache_enabled => ~calls'[m][f].cache_enabled
                      /\ calls[m][f].cache_checked => calls'[m][f].cache_checked]_vars

\* the last token of the block that opens at token i
RECURSIVE BlockEnd(_, _, _)
BlockEnd(toks, i, open) ==
    IF i >= Len(toks) THEN Len(toks)
    ELSE IF toks[i].type = "TOKEN_LBRACE" THEN BlockEnd(toks, i + 1, open + 1)
    ELSE IF toks[i].type = "TOKEN_RBRACE" /\ open = 1 THEN i
    ELSE IF toks[i].type = "TOKEN_RBRACE" THEN BlockEnd(toks, i + 1, open - 1)
    ELSE BlockEnd(toks, i + 1, open)

\* the last token of the expression that starts at token i
RECURSIVE ExpressionEnd(_, _)
ExpressionEnd(toks, i) ==
    IF i >= Len(toks) \/ toks[i].type \in {"TOKEN_SEMICOLON", "TOKEN_EOF"} THEN i
    ELSE ExpressionEnd(toks, i + 1)

\* the tokens of the body of the function whose record says it starts at start
Body(toks, start) ==
    IF start \notin 1..Len(toks) THEN {}
    ELSE IF toks[start].type = "TOKEN_LBRACE" THEN start..BlockEnd(toks, start, 0)
    ELSE start..ExpressionEnd(toks, start)

\* the body of function f holds a print, or an assignment to a name that no
\* let of the body binds
ImpureBody(m, f) ==
    LET toks == tokens[m]
        body == Body(toks, calls[m][f].pc)
        bound == {toks[i].hash : i \in {j \in body : j > 1 /\ toks[j - 1].type = "TOKEN_LET"}}
    IN  \E i \in body :
            \/ toks[i].type = "TOKEN_PRINT"
            \/ /\ toks[i].type = "TOKEN_IDENTIFIER"
               /\ i + 1 \in body
               /\ toks[i + 1].type = "TOKEN_ASSIGN"
               /\ toks[i].hash \notin bound

\* the buckets of the cache of function f that are occupied
Occupied(c, f) == {h \in DOMAIN c[f].cache : c[f].cache[h].cached}

\* Claim C19: impurity detection.  A function whose body contains a print or
\* an assignment to a variable that is not a local let binding has its
\* cache_enabled flag false before a result can be cached: no step of a run
\* stores a result in the cache of such a function.
ImpureIsNeverCached ==
    [][\A m \in Builds :
          \A f \in (DOMAIN calls[m]) \cap (DOMAIN calls'[m]) :
              (status[m] = "running" /\ ImpureBody(m, f)) =>
                  Occupied(calls'[m], f) \subseteq Occupied(calls[m], f)]_vars

\* Claim C20: the scope of memoization.  When a step of a run occupies a bucket
\* of the cache of a function, the function has one, two or three parameters
\* and the arguments kept in the bucket are integers (a parameter the function
\* does not have is kept as UNDEFINED): a call with an argument that is not an
\* integer stores no entry.
MemoizationScope ==
    [][\A m \in Builds :
          \A f \in (DOMAIN calls[m]) \cap (DOMAIN calls'[m]) :
              status[m] = "running" =>
                  \A h \in Occupied(calls'[m], f) \ Occupied(calls[m], f) :
                      LET cache == calls'[m][f].cache[h]
                      IN  /\ calls'[m][f].args.count \in 1..3
                          /\ \A input \in {cache.input0, cache.input1, cache.input2} :
                                 input.type \in {"INTEGER", "UNDEFINED"}]_vars

\* the value of parameter i of function f in frame sp of build m
Argument(m, f, sp, i) ==
    LET call == calls[m][f]
    IN  IF sp \in DOMAIN stacks[m]
        THEN At(stacks[m][sp].mem, At(call.args.hash, i, 0), Undefined)
        ELSE Undefined

\* a call of function f is answered from its cache in this step
CacheHit(m, f) ==
    /\ Running(m, "rinha_call_function_")
    /\ k[m][Len(k[m])].f = f
    /\ status'[m] = "running"
    /\ Len(k'[m]) < Len(k[m])
    /\ rinha_sp'[m] = rinha_sp[m]
    /\ pc'[m] # pc[m]

\* Claim C21: exact-match lookup.  The arguments recorded in a cache entry are
\* those of the call whose result is stored, in every parameter position, also
\* when the body of the callee called other functions; and a call is answered
\* from the cache only with the value of an entry whose recorded arguments are
\* the arguments of that call.
ExactMatchLookup ==
    [][\A m \in Builds :
          \A f \in (DOMAIN calls[m]) \cap (DOMAIN calls'[m]) :
              /\ status[m] = "running" =>
                    \A h \in Occupied(calls'[m], f) \ Occupied(calls[m], f) :
                        LET cache == calls'[m][f].cache[h]
                            input == <<cache.input0, cache.input1, cache.input2>>
                        IN  \A i \in 0..2 :
                                i < calls[m][f].args.count =>
                                    /\ input[i + 1].type = Argument(m, f, rinha_sp[m], i).type
                                    /\ input[i + 1].number = Argument(m, f, rinha_sp[m], i).number
              /\ CacheHit(m, f) =>
                    \E h \in Occupied(calls[m], f) :
                        LET cache == calls[m][f].cache[h]
                            input == <<cache.input0, cache.input1, cache.input2>>
                        IN  /\ v'[m] = cache.value
                            /\ \A i \in 0..2 :
                                   i < calls[m][f].args.count =>
                                       /\ input[i + 1].type = "INTEGER"
                                       /\ input[i + 1].number =
                                              At(stacks'[m][rinha_sp[m] + 1].mem,
                                                 At(calls[m][f].args.hash, i, 0),
                                                 Undefined).number]_vars

IfJumpCacheIsTransparent ==
    [][\A m \in Builds :
          /\ (/\ Running(m, "rinha_exec_if_statement_")
              /\ k[m][Len(k[m])].at = "then"
              /\ status'[m] = "running")
                => IF tokens[m][pc[m]].type = "TOKEN_ELSE"
                   THEN \/ pc'[m] = BlockEnd(tokens[m], pc[m] + 1, 0) + 1
                        \/ /\ pc'[m] = pc[m] + 2
                           /\ k'[m][Len(k'[m])].function = "rinha_block_jump_"
                   ELSE pc'[m] = pc[m]
          /\ (script = IfAgain /\ status'[m] = "returned")
                => stdout'[m] = <<"1", "\n", "2", "\n", "1", "\n", "2", "\n">>]_vars

Jumps == {"rinha_block_jump_", "rinha_expression_jump"}

FramesAreClearedOnReturn ==
    \A m \in Builds :
        /\ status[m] = "running" =>
              \A sp \in DOMAIN stacks[m] :
                  sp > rinha_sp[m] =>
                      \A hash \in DOMAIN stacks[m][sp].mem :
                          stacks[m][sp].mem[hash].type = "UNDEFINED"
        /\ (script = StaleFrame /\ Finished(m)) =>
              /\ status[m] = "exited"
              /\ stderr[m] # <<>>
              /\ stderr[m][Len(stderr[m])].msg = "Undefined symbol (Hash: %d) "

\* the calls of build m that have been entered and have not returned
ActiveCalls(m) == {i \in DOMAIN k[m] : k[m][i].function = "rinha_exec_function_"}

\* Claim C26: frame-stack balance.  While a script runs the depth rinha_sp is
\* the number of calls that are active, so that a call that completes, by a
\* cache hit or by executing its body, leaves the depth it found; the current
\* frame stack_ctx is the frame at that depth, the global frame at top level.
FrameStackBalance ==
    \A m \in Builds :
        status[m] = "running" =>
            /\ rinha_sp[m] = Cardinality(ActiveCalls(m))
            /\ stack_ctx[m] = rinha_sp[m]
            /\ ActiveCalls(m) = {} => stack_ctx[m] = 0

\* fib(3) has completed, calls answered from the cache included, and the
\* script is back at top level
FrameStackBalanceWitness ==
    /\ script = Fib
    /\ status["shipped"] = "running"
    /\ ActiveCalls("shipped") = {}
    /\ rinha_sp["shipped"] = 0
    /\ stack_ctx["shipped"] = 0
    /\ v["shipped"].type = "INTEGER"
    /\ v["shipped"].number = 2
    /\ \E f \in DOMAIN calls["shipped"] : Cardinality(Occupied(calls["shipped"], f)) >= 3

\* the function records that a variable of the global frame refers to
HeldAtTopLevel(m) ==
    IF 0 \in DOMAIN stacks[m]
    THEN {stacks[m][0].mem[hash].function :
              hash \in {h \in DOMAIN stacks[m][0].mem : stacks[m][0].mem[h].type = "FUNCTION"}}
    ELSE {}

\* Claim C27: closure instances are independent.  No step of a run changes the
\* captured values of a function that a global variable holds, also when the
\* function literal it was made from is evaluated again; in TwoClosures the
\* function made by mk(1) adds 1 before and after mk(2) is called, so that 11,
\* 22 and 11 are printed.
ClosureInstancesAreIndependent ==
    [][\A m \in Builds :
          /\ (status[m] = "running" /\ status'[m] = "running") =>
                \A f \in HeldAtTopLevel(m) \cap DOMAIN calls[m] :
                    calls'[m][f].env = calls[m][f].env
          /\ (script = TwoClosures /\ status'[m] = "returned") =>
                stdout'[m] = <<"1", "1", "\n", "2", "2", "\n", "1", "1", "\n">>]_vars

\* the global variables that hold a string before and after a step without
\* having been assigned by it
KeptStrings(m) ==
    IF 0 \in DOMAIN stacks[m] /\ 0 \in DOMAIN stacks'[m]
    THEN {h \in DOMAIN stacks[m][0].mem \cap DOMAIN stacks'[m][0].mem :
              /\ stacks[m][0].mem[h].type = "STRING"
              /\ stacks'[m][0].mem[h] = stacks[m][0].mem[h]
              /\ stacks[m][0].mem[h].string \in DOMAIN string_pool[m]}
    ELSE {}

\* Claim C28: value-copy semantics for stored strings.  A string held in a
\* global variable keeps its contents through every step that does not assign
\* the variable, however many other strings the step or the steps before it
\* made; in PoolWrap the variable a still reads x after eleven other string
\* definitions, or the run ends with a fatal error.
StoredStringsKeepTheirContents ==
    [][\A m \in Builds :
          /\ (status[m] = "running" /\ status'[m] = "running") =>
                \A h \in KeptStrings(m) :
                    /\ stacks[m][0].mem[h].string \in DOMAIN string_pool'[m]
                    /\ string_pool'[m][stacks[m][0].mem[h].string]
                       = string_pool[m][stacks[m][0].mem[h].string]
          /\ (script = PoolWrap /\ status'[m] = "returned") =>
                stdout'[m] = <<"x", "\n">>]_vars

\* the loop of rinha_tokenize_ run to the end of the source
RECURSIVE rinha_tokenize_loop(_)
rinha_tokenize_loop(s) ==
    IF Ch(s.src, s.code_ptr) = NUL THEN s ELSE rinha_tokenize_loop(rinha_tokenize_(s))

\* the token sequence the tokenizer of build m makes of a source text, the
\* EOF token included
TokensOf(m, text) ==
    rinha_script_exec_tokenized(
        rinha_tokenize_loop([rinha_script_exec(Machine(m, FALSE, 0), FALSE)
                                 EXCEPT !.src = text])).tokens

Lexemes(toks) == [i \in DOMAIN toks |-> <<toks[i].type, toks[i].lexname>>]

Lexed(m) == status[m] \in {"running", "returned", "exited", "killed"}

\* Claim C29: the lexer splits an operator from adjacent operands.  For each
\* of =, ==, !=, <, <=, >, >=, && and ||, and for =>, the tokens of a script
\* that writes the operator against its operands are the tokens of the same
\* script with the operator between spaces.
OperatorsSplitWithoutSpaces ==
    \A m \in Builds : \A i \in DOMAIN Adjacent :
        (script = Adjacent[i] /\ Lexed(m)) =>
            Lexemes(tokens[m]) = Lexemes(TokensOf(m, Spaced[i]))

\* Claim C30: comments are transparent to the token stream.  The tokens of a
\* script with a line comment or a block comment are the tokens of the script
\* with the comment replaced by one space, wherever the comment stands: after
\* white space, directly before a token, or directly after a token.
CommentsAreTransparent ==
    \A m \in Builds : \A i \in DOMAIN Commented :
        (script = Commented[i] /\ Lexed(m)) =>
            Lexemes(tokens[m]) = Lexemes(TokensOf(m, Blanked[i]))
====
